---- MODULE Spec2Model ----
(***************************************************************************)
(* Overflow prediction and text compression of the IDML translator.        *)
(*                                                                         *)
(* Texts are strings; a character is a string of length 1.  Lengths of     *)
(* frames (width, height, insets, gutter, font size, leading) are kept in  *)
(* tenths of a unit, expansion factors and scores in hundredths, so that   *)
(* the float arithmetic of the source is exact integer arithmetic here.    *)
(***************************************************************************)
EXTENDS Integers, Sequences, FiniteSets, TLC

VARIABLES
    frame_metrics,     \* Dict[str, TextFrameMetrics] in insertion order: a sequence of frames
    texts,             \* the list of texts of the last call
    target_language,   \* the target language of the last prediction call
    target_reductions, \* the reduction percentages given to apply_text_compression
    predictions,       \* the OverflowPrediction objects built by the last call
    prev_predictions,  \* those built by the prediction call before it
    resolutions,       \* the OverflowResolution objects built by the last call
    compressed_texts,  \* the list returned by apply_text_compression
    space,             \* the result of _calculate_available_character_space
    max_length,        \* the target length given to _intelligent_truncation
    truncated,         \* the result of _intelligent_truncation
    strategy_name,     \* the compression strategy under repeated application
    applied,           \* its results: applied[n] is the text after n applications
    stories_data,      \* the stories given to detect_diagram_frames
    diagram_scores,    \* the diagram score computed for each frame, in hundredths
    diagram_frames,    \* the mapping returned by detect_diagram_frames, in insertion order
    prev_diagram_scores, \* the scores of the call before the last one
    keywords_added,    \* the number of keyword texts added to stories_data since the first call
    overflow_report,   \* the result of generate_overflow_report, <<>> before the call
    compression_report, \* the result of generate_compression_report, likewise
    diagram_report,    \* the result of generate_diagram_detection_report, likewise
    idml_package,      \* the files of the package of the processor, None if not loaded
    batches,           \* the batches translate_texts cut its texts into
    batch_index,       \* the index i of the batch being translated, from 0
    attempt,           \* the attempt of _translate_batch under way, from 0
    all_translations,  \* the translations translate_texts has collected so far
    api_calls,         \* the calls of chat.completions.create so far, each with its outcome
    sleeps,            \* the calls of time.sleep so far, each with its seconds
    translations,      \* what translate_texts or _translate_batch returned or raised
    tm_db,             \* the file tm.db: whether it exists, its rows and its last row id
    backups,           \* the backup directory: the content of name.db for each name
    now,               \* the clock, in seconds
    cache_log,         \* the calls on the cache so far, each with the cache after it
    single_prediction, \* the prediction given to _resolve_single_overflow
    single_max_iterations, \* the max_iterations given to it
    passes,            \* the passes over the strategies it has started
    strategy_index,    \* the place in compression_strategies of the strategy to apply next
    loop_state,        \* its current_text, methods_used and total_saved
    applications,      \* the strategies it has applied, with the lengths before and after
    single_resolution, \* the OverflowResolution it returned
    max_lengths,       \* the max_lengths given to apply_overflow_corrections
    corrected_translations, \* the list it returned
    tasks,             \* the translation tasks of translate_texts_batch, each with its position
    async_translator,  \* the AsyncTranslator: max_concurrent, use_cache, the value of its semaphore
    results,           \* the results of translate_texts_batch, None where there is none yet
    cleanup,           \* the arguments, the answers and the result of safe_cache_cleanup
    pc                 \* the last operation that ran, "raised" if it raised

\* The variables of prediction, resolution and compression.
overflowVars ==
    <<target_language, target_reductions, predictions, prev_predictions, resolutions,
      compressed_texts, space>>

truncationVars == <<max_length, truncated>>

strategyVars == <<strategy_name, applied>>

diagramVars ==
    <<stories_data, diagram_scores, diagram_frames, prev_diagram_scores, keywords_added>>

reportVars == <<overflow_report, compression_report, diagram_report>>

\* The variables of the operations added to the model after the diagram frames.
translatorVars ==
    <<batches, batch_index, attempt, all_translations, api_calls, sleeps, translations>>

\* The variables of the translator and of what the model covers after it.
cacheVars == <<tm_db, backups, now, cache_log>>

loopVars ==
    <<single_prediction, single_max_iterations, passes, strategy_index, loop_state,
      applications, single_resolution>>

\* The variables of the overflow corrections, of the asynchronous translator and of the
\* cleanup of the cache.
lastVars ==
    <<max_lengths, corrected_translations, tasks, async_translator, results, cleanup>>

laterVars == <<translatorVars, cacheVars, loopVars, lastVars>>

\* The variables of the operations up to the analysis of the document.
coreVars ==
    <<frame_metrics, texts, overflowVars, truncationVars, strategyVars, diagramVars,
      reportVars, idml_package>>

restVars == <<reportVars, idml_package, laterVars>>

vars ==
    <<frame_metrics, texts, overflowVars, truncationVars, strategyVars, diagramVars,
      restVars, pc>>

(***************************************************************************)
(* Bounds of the model                                                     *)
(***************************************************************************)
MaxTexts == 2
MaxColumns == 3
MaxTruncationLength == 7
MaxTarget == 6
MaxTokens == 3
MaxApplications == 2
MaxFrames == 2
MaxKeywordsAdded == 2
MaxElements == 2
MaxTranslated == 3
MaxMemoryCalls == 3
MaxCacheCalls == 4
MaxClock == 1
MaxIterations == 2
MaxCorrected == 2
MaxCorrectionLength == 4

\* The largest max_concurrent of an AsyncTranslator.
MaxConcurrent == 2

\* The longest list of texts of a call of translate_texts_batch.
MaxAsyncTexts == 3

\* The calls of translate_texts_batch of one AsyncTranslator.
MaxBatchCalls == 2

\* The runs of safe_cache_cleanup.
MaxCleanups == 2

(***************************************************************************)
(* Arithmetic helpers                                                      *)
(***************************************************************************)
Max(a, b) == IF a >= b THEN a ELSE b

Min(a, b) == IF a <= b THEN a ELSE b

\* Python int() of the quotient a / b for b > 0: truncation toward zero.
TruncDiv(a, b) == IF a >= 0 THEN a \div b ELSE -((-a) \div b)

\* Body applied to the value of v: a name for an intermediate result, computed once
\* however often Body uses it.
With(v, Body(_)) == CHOOSE r \in {Body(x) : x \in {v}} : TRUE

With2(v, w, Body(_, _)) == CHOOSE r \in {Body(x, y) : x \in {v}, y \in {w}} : TRUE

With3(u, v, w, Body(_, _, _)) ==
    CHOOSE r \in {Body(x, y, z) : x \in {u}, y \in {v}, z \in {w}} : TRUE

RECURSIVE SumOf(_)
\* sum(...) of a list of integers
SumOf(list) == IF list = <<>> THEN 0 ELSE list[1] + SumOf(Tail(list))

\* The elements of a sequence.
Range(seq) == {seq[i] : i \in DOMAIN seq}

\* min(S)
Minimum(S) == CHOOSE a \in S : \A b \in S : a <= b

\* The n-th smallest element of S.
Nth(S, n) == CHOOSE c \in S : Cardinality({d \in S : d < c}) = n - 1

(***************************************************************************)
(* TextFrameMetrics and the frame geometry                                 *)
(***************************************************************************)
TextFrameMetrics(id, w, h, cc, gutter, inset, fs, lead, chars, risk) ==
    [frame_id |-> id, width |-> w, height |-> h, x |-> 0, y |-> 0,
     column_count |-> cc, column_gutter |-> gutter, inset_spacing |-> inset,
     font_size |-> fs, leading |-> lead, char_count |-> chars,
     estimated_overflow_risk |-> risk]

\* The floor of 50 characters of _calculate_available_character_space.
MinCapacity == 50

CapacityWithoutFloor(m) ==
    LET top == m.inset_spacing[1]
        right == m.inset_spacing[2]
        bottom == m.inset_spacing[3]
        left == m.inset_spacing[4]
        full_width == m.width - left - right
        effective_height == m.height - top - bottom
        \* effective_width is width_num / width_den
        width_num == IF m.column_count > 1
                     THEN full_width - (m.column_count - 1) * m.column_gutter
                     ELSE full_width
        width_den == IF m.column_count > 1 THEN m.column_count ELSE 1
        \* font_char_width = font_size * 0.6
        chars_per_line == Max(1, TruncDiv(width_num * 10, width_den * m.font_size * 6))
        lines_available == Max(1, TruncDiv(effective_height, m.leading))
    IN  chars_per_line * lines_available * m.column_count

\* The capacity as it would be without the last line, return max(total_chars, 50).
CalculateAvailableCharacterSpaceNoFloor(m) == CapacityWithoutFloor(m)

CalculateAvailableCharacterSpace(m) == Max(CapacityWithoutFloor(m), MinCapacity)

(***************************************************************************)
(* OverflowDetector: prediction.  An overflow risk is the exact quotient   *)
(* num / den, kept as the pair [num, den] with den >= 1.                   *)
(***************************************************************************)
\* expansion_factors, in hundredths; 1.20 for a language that is not in the table.  For
\* the text lengths of the model (below 100) int(len(text) * factor) is the exact floor.
ExpansionFactor(language) ==
    CASE language = "de" -> 130
      [] language = "en" -> 110
      [] language = "fr" -> 115
      [] language = "es" -> 105
      [] language = "pt" -> 110
      [] OTHER -> 120

\* risk_thresholds, in hundredths
RiskThreshold(bucket) ==
    CASE bucket = "low" -> 75
      [] bucket = "medium" -> 90
      [] bucket = "high" -> 100
      [] bucket = "critical" -> 100

\* The quotient the other way round, available / estimated.
RiskInverted(n, d) == [num |-> d, den |-> n]

\* estimated_length / max(available_chars, 1)
Risk(n, d) == [num |-> n, den |-> d]

\* risk < hundredths / 100
RiskBelow(risk, hundredths) == risk.num * 100 < hundredths * risk.den

\* risk <= 1.0
RiskAtMostOne(risk) == risk.num <= risk.den

\* a <= b for two risks
RiskLeq(a, b) == a.num * b.den <= b.num * a.den

\* The branch of the if/elif ladder of _generate_overflow_suggestions (and of the
\* report) that a risk falls in.
RiskBucket(risk) ==
    IF RiskBelow(risk, RiskThreshold("low")) THEN "low"
    ELSE IF RiskBelow(risk, RiskThreshold("medium")) THEN "medium"
    ELSE IF RiskBelow(risk, RiskThreshold("high")) THEN "high"
    ELSE "critical"

\* The suggestions, without the pictograph each one starts with; the last one carries
\* the reduction needed (its percentage is not modelled).
GenerateOverflowSuggestions(text, estimated_length, available_chars, overflow_risk) ==
    (CASE RiskBucket(overflow_risk) = "low" ->
            <<"Nessun rischio overflow - traduzione normale">>
       [] RiskBucket(overflow_risk) = "medium" ->
            <<"Rischio basso - monitorare lunghezza traduzione",
              "Usa traduzioni concise quando possibile">>
       [] RiskBucket(overflow_risk) = "high" ->
            <<"Rischio medio - richiedi traduzione compatta",
              "Usa abbreviazioni tecniche standard",
              "Rimuovi parole non essenziali">>
       [] OTHER ->
            <<"Rischio alto/critico - azione necessaria",
              "Richiedi traduzione ultra-concisa",
              "Usa abbreviazioni e acronimi",
              "Considera riduzione font size">>
              \o (IF Len(text) > 100
                  THEN <<"Dividi testo in segmenti più piccoli">> ELSE <<>>))
    \o (IF estimated_length > available_chars
        THEN <<"Riduci lunghezza di ~" \o ToString(estimated_length - available_chars)
                \o " caratteri">>
        ELSE <<>>)

OverflowPrediction(text, estimated, available, risk, recommended, frame, suggestions) ==
    [original_text |-> text, estimated_translated_length |-> estimated,
     available_space_chars |-> available, overflow_risk |-> risk,
     recommended_max_length |-> recommended, frame_id |-> frame,
     suggestions |-> suggestions]

\* The virtual frame as it would be with no insets.
VirtualFrameWithoutInsets(i, text) ==
    TextFrameMetrics("frame_" \o ToString(i), 2000, 1000, 1, 120, <<0, 0, 0, 0>>,
                     120, 144, Len(text), 80)

\* The frame synthesized for text number i (from 0) when no frame metrics are given.
VirtualFrame(i, text) ==
    TextFrameMetrics("frame_" \o ToString(i), 2000, 1000, 1, 120, <<60, 60, 60, 60>>,
                     120, 144, Len(text), 80)

\* int(len(text) * expansion_factor)
EstimatedLength(text, language) == (Len(text) * ExpansionFactor(language)) \div 100

\* The recommendation without the safety margin of 10%.
RecommendedWholeSpace(available_chars) == available_chars

\* int(available_chars * 0.9)
RecommendedMaxLength(available_chars) == (available_chars * 9) \div 10

\* Every text measured against a frame of its own: the frame at its position where the
\* mapping has one.
FrameForOwn(i, text, metrics) ==
    IF metrics = <<>> THEN VirtualFrame(i, text)
    ELSE IF i + 1 <= Len(metrics) THEN metrics[i + 1] ELSE metrics[1]

\* The frame a text is measured against: the first of the mapping, or the virtual one.
FrameFor(i, text, metrics) == IF metrics # <<>> THEN metrics[1] ELSE VirtualFrame(i, text)

\* The body of the loop of predict_translation_overflow for text number i (from 0).
PredictOne(i, text, language, metrics) ==
    With3(EstimatedLength(text, language), FrameFor(i, text, metrics).frame_id,
          CalculateAvailableCharacterSpace(FrameFor(i, text, metrics)),
          LAMBDA estimated_length, frame_id, available_chars :
    With(Risk(estimated_length, Max(available_chars, 1)), LAMBDA overflow_risk :
        OverflowPrediction(text, estimated_length, available_chars, overflow_risk,
            RecommendedMaxLength(available_chars), frame_id,
            GenerateOverflowSuggestions(text, estimated_length, available_chars,
                                        overflow_risk))))

\* The predictions in the reverse order of the texts.
PredictTranslationOverflowReversed(txts, language, metrics) ==
    [i \in 1..Len(txts) |->
        PredictOne(Len(txts) - i, txts[Len(txts) + 1 - i], language, metrics)]

PredictTranslationOverflow(txts, language, metrics) ==
    [i \in 1..Len(txts) |-> PredictOne(i - 1, txts[i], language, metrics)]

(***************************************************************************)
(* Strings: the character classes and string methods the source relies on  *)
(***************************************************************************)
Char(s, i) == SubSeq(s, i, i)

CharsOf(s) == {Char(s, i) : i \in 1..Len(s)}

UppercaseLetters == "ABCDEFGHIJKLMNOPQRSTUVWXYZÄÖÜ"

LowercaseLetters == "abcdefghijklmnopqrstuvwxyzäöü"

\* Python \s (and str.split, str.strip) on the characters that occur here.
WhiteSpace == {" ", "\t", "\n"}

\* Python \d
DigitChars == CharsOf("0123456789")

\* Python \w: letters, digits and the underscore.
WordChars ==
    CharsOf(UppercaseLetters) \cup CharsOf(LowercaseLetters) \cup DigitChars
        \cup CharsOf("_ß²àèéìòùíëº")

IsSpace(c) == c \in WhiteSpace

IsWordChar(c) == c \in WordChars

IsDigit(c) == c \in DigitChars

LowerMap ==
    [c \in CharsOf(UppercaseLetters) |->
        Char(LowercaseLetters,
             CHOOSE i \in 1..Len(UppercaseLetters) : Char(UppercaseLetters, i) = c)]

LowerChar(c) == IF c \in DOMAIN LowerMap THEN LowerMap[c] ELSE c

RECURSIVE Lower(_)
\* str.lower(), computed by halves
Lower(text) ==
    With(text, LAMBDA s :
        IF Len(s) <= 1 THEN LowerChar(s)
        ELSE Lower(SubSeq(s, 1, Len(s) \div 2))
                \o Lower(SubSeq(s, Len(s) \div 2 + 1, Len(s))))

\* The first index >= i of s whose character is not in class (Len(s) + 1 if none).
RunEnd(s, i, class) ==
    IF \A j \in i..Len(s) : Char(s, j) \in class THEN Max(i, Len(s) + 1)
    ELSE CHOOSE j \in i..Len(s) :
            Char(s, j) \notin class /\ \A k \in i..(j - 1) : Char(s, k) \in class

\* The last index <= i of s whose character is not in class (0 if none).
RunStart(s, i, class) ==
    IF \A j \in 1..i : Char(s, j) \in class THEN Min(i, 0)
    ELSE CHOOSE j \in 1..i :
            Char(s, j) \notin class /\ \A k \in (j + 1)..i : Char(s, k) \in class

\* str.strip()
Strip(text) ==
    With(text, LAMBDA s :
        SubSeq(s, RunEnd(s, 1, WhiteSpace), RunStart(s, Len(s), WhiteSpace)))

\* The indices at which a maximal run of non-whitespace characters starts.
WordStarts(s) ==
    {b \in 1..Len(s) : ~IsSpace(Char(s, b)) /\ (b = 1 \/ IsSpace(Char(s, b - 1)))}

\* The first index >= b of s whose character is whitespace (Len(s) + 1 if none).
WordEnd(s, b) ==
    IF \A j \in b..Len(s) : ~IsSpace(Char(s, j)) THEN Len(s) + 1
    ELSE CHOOSE j \in b..Len(s) :
            IsSpace(Char(s, j)) /\ \A k \in b..(j - 1) : ~IsSpace(Char(s, k))

\* str.split(): the maximal runs of non-whitespace characters, in order.
Split(text) ==
    With(text, LAMBDA s :
        With(WordStarts(s), LAMBDA starts :
            [n \in 1..Cardinality(starts) |->
                With(Nth(starts, n), LAMBDA b : SubSeq(s, b, WordEnd(s, b) - 1))]))

\* sub in s
Contains(s, sub) == \E i \in 1..(Len(s) - Len(sub) + 1) : SubSeq(s, i, i + Len(sub) - 1) = sub

RECURSIVE JoinRange(_, _, _, _)
JoinRange(words, lo, hi, sep) ==
    IF lo > hi THEN ""
    ELSE IF lo = hi THEN words[lo]
    ELSE JoinRange(words, lo, (lo + hi) \div 2, sep) \o sep
            \o JoinRange(words, (lo + hi) \div 2 + 1, hi, sep)

\* sep.join(list), computed by halves
Join(list, sep) == With(list, LAMBDA words : JoinRange(words, 1, Len(words), sep))

RECURSIVE KeepChars(_, _)
\* The characters of text that are in class, in order: re.sub(r'[^\w]', '', text) for
\* WordChars.
KeepChars(text, class) ==
    With(text, LAMBDA s :
        IF Len(s) <= 1 THEN (IF s \in class THEN s ELSE "")
        ELSE KeepChars(SubSeq(s, 1, Len(s) \div 2), class)
                \o KeepChars(SubSeq(s, Len(s) \div 2 + 1, Len(s)), class))

(***************************************************************************)
(* Regular expressions.  A pattern is a sequence of elements [t, v]:       *)
(*   "lit"  the literal v            "alt"  a group (v[1]|v[2]|...)        *)
(*   "ws1"  \s+     "ws0"  \s*       "word" a group (\w+)                  *)
(*   "num"  a group (\d+)            "b"    \b                             *)
(*   "ref"  the backreference \v    "digits" \d+ outside a group          *)
(* Under IGNORECASE (ic) the literals are written in lower case and are    *)
(* compared with the lower-cased characters of the text.  In every pattern *)
(* of the source a greedy run is followed by an element that cannot start  *)
(* inside the run, so the longest run is the only one a backtracking       *)
(* matcher can accept.                                                     *)
(***************************************************************************)
Lit(v) == [t |-> "lit", v |-> v]

Alt(v) == [t |-> "alt", v |-> v]

Ws1 == [t |-> "ws1", v |-> ""]

Ws0 == [t |-> "ws0", v |-> ""]

WordGroup == [t |-> "word", v |-> ""]

NumGroup == [t |-> "num", v |-> ""]

Digits == [t |-> "digits", v |-> ""]

Boundary == [t |-> "b", v |-> ""]

Ref(n) == [t |-> "ref", v |-> n]

\* c+, c* and c? for a character c
Plus(c) == [t |-> "plus", v |-> c]

Star(c) == [t |-> "star", v |-> c]

Opt(c) == [t |-> "opt", v |-> c]

\* A group of the literal v and w+ for a character w
LitPlusGroup(v, w) == [t |-> "litplus", v |-> v, w |-> w]

\* (?!v) for a literal v
NotAhead(v) == [t |-> "nla", v |-> v]

NoMatch == [ok |-> FALSE, end |-> 0, groups |-> <<>>]

\* \b between s[i-1] and s[i]
AtBoundary(s, i) ==
    (i > 1 /\ IsWordChar(Char(s, i - 1))) # (i <= Len(s) /\ IsWordChar(Char(s, i)))

\* The literal v at index i of s.
LitAt(s, i, v, ic) ==
    /\ i + Len(v) - 1 <= Len(s)
    /\ IF ic
       THEN \A k \in 1..Len(v) : LowerChar(Char(s, i + k - 1)) = Char(v, k)
       ELSE SubSeq(s, i, i + Len(v) - 1) = v

\* The first index >= i of s whose character is not c (Len(s) + 1 if none).
CharRunEnd(s, i, c, ic) ==
    IF \A j \in i..Len(s) : LitAt(s, j, c, ic) THEN Max(i, Len(s) + 1)
    ELSE CHOOSE j \in i..Len(s) :
            ~LitAt(s, j, c, ic) /\ \A k \in i..(j - 1) : LitAt(s, k, c, ic)

\* The first alternative of alts that is at index i of s (0 if none).
FirstAlternative(s, i, alts, ic) ==
    With({h \in 1..Len(alts) : LitAt(s, i, alts[h], ic)}, LAMBDA found :
        IF found = {} THEN 0 ELSE Minimum(found))

RECURSIVE MatchAt(_, _, _, _, _, _)
\* The match of pat[at..] at index from of s, with the groups captured so far.
MatchAt(s, ic, pat, at, from, captured) ==
    With3(at, from, captured, LAMBDA k, i, groups :
        IF k > Len(pat) THEN [ok |-> TRUE, end |-> i, groups |-> groups]
        ELSE CASE pat[k].t = "lit" ->
                 IF LitAt(s, i, pat[k].v, ic)
                 THEN MatchAt(s, ic, pat, k + 1, i + Len(pat[k].v), groups)
                 ELSE NoMatch
            [] pat[k].t = "alt" ->
                 With(FirstAlternative(s, i, pat[k].v, ic), LAMBDA a :
                     IF a = 0 THEN NoMatch
                     ELSE MatchAt(s, ic, pat, k + 1, i + Len(pat[k].v[a]),
                                  Append(groups, SubSeq(s, i, i + Len(pat[k].v[a]) - 1))))
            [] pat[k].t = "ws1" ->
                 IF i <= Len(s) /\ IsSpace(Char(s, i))
                 THEN MatchAt(s, ic, pat, k + 1, RunEnd(s, i, WhiteSpace), groups)
                 ELSE NoMatch
            [] pat[k].t = "ws0" ->
                 MatchAt(s, ic, pat, k + 1, RunEnd(s, i, WhiteSpace), groups)
            [] pat[k].t = "word" ->
                 IF i <= Len(s) /\ IsWordChar(Char(s, i))
                 THEN With(RunEnd(s, i, WordChars), LAMBDA e :
                          MatchAt(s, ic, pat, k + 1, e, Append(groups, SubSeq(s, i, e - 1))))
                 ELSE NoMatch
            [] pat[k].t = "num" ->
                 IF i <= Len(s) /\ IsDigit(Char(s, i))
                 THEN With(RunEnd(s, i, DigitChars), LAMBDA e :
                          MatchAt(s, ic, pat, k + 1, e, Append(groups, SubSeq(s, i, e - 1))))
                 ELSE NoMatch
            [] pat[k].t = "digits" ->
                 IF i <= Len(s) /\ IsDigit(Char(s, i))
                 THEN MatchAt(s, ic, pat, k + 1, RunEnd(s, i, DigitChars), groups)
                 ELSE NoMatch
            [] pat[k].t = "b" ->
                 IF AtBoundary(s, i) THEN MatchAt(s, ic, pat, k + 1, i, groups)
                 ELSE NoMatch
            [] pat[k].t \in {"plus", "star", "opt"} ->
                 \* the longest run of the character after which the rest matches
                 With(CharRunEnd(s, i, pat[k].v, ic), LAMBDA e :
                 With({j \in (IF pat[k].t = "plus" THEN i + 1 ELSE i)
                                ..(IF pat[k].t = "opt" THEN Min(e, i + 1) ELSE e) :
                          MatchAt(s, ic, pat, k + 1, j, groups).ok}, LAMBDA ends :
                     IF ends = {} THEN NoMatch
                     ELSE MatchAt(s, ic, pat, k + 1,
                                  CHOOSE j \in ends : \A h \in ends : h <= j, groups)))
            [] pat[k].t = "litplus" ->
                 IF LitAt(s, i, pat[k].v, ic)
                    /\ LitAt(s, i + Len(pat[k].v), pat[k].w, ic)
                 THEN With(CharRunEnd(s, i + Len(pat[k].v), pat[k].w, ic), LAMBDA e :
                          MatchAt(s, ic, pat, k + 1, e, Append(groups, SubSeq(s, i, e - 1))))
                 ELSE NoMatch
            [] pat[k].t = "nla" ->
                 IF LitAt(s, i, pat[k].v, ic) THEN NoMatch
                 ELSE MatchAt(s, ic, pat, k + 1, i, groups)
            [] pat[k].t = "ref" ->
                 IF LitAt(s, i, IF ic THEN Lower(groups[pat[k].v]) ELSE groups[pat[k].v],
                          ic)
                 THEN MatchAt(s, ic, pat, k + 1, i + Len(groups[pat[k].v]), groups)
                 ELSE NoMatch)

\* The indices >= i at which the pattern matches.
MatchStarts(s, ic, pat, i) == {j \in i..Len(s) : MatchAt(s, ic, pat, 1, j, <<>>).ok}

\* re.search(pattern, s) is not None
ReSearch(pat, ic, s) == \E j \in 1..Len(s) : MatchAt(s, ic, pat, 1, j, <<>>).ok

\* A replacement template: literals and group references.
Grp(n) == [t |-> "grp", v |-> n]

Expand(repl, groups) ==
    Join([n \in 1..Len(repl) |->
            IF repl[n].t = "grp" THEN groups[repl[n].v] ELSE repl[n].v], "")

\* The leftmost match at an index >= from, with its start.
FirstMatch(s, ic, pat, from) ==
    With(MatchStarts(s, ic, pat, from), LAMBDA starts :
        IF starts = {} THEN [ok |-> FALSE, start |-> 0, end |-> 0, groups |-> <<>>]
        ELSE With(Minimum(starts), LAMBDA j :
                 [start |-> j] @@ MatchAt(s, ic, pat, 1, j, <<>>)))

RECURSIVE SubFrom(_, _, _, _, _)
\* The text from index from on with every leftmost non-overlapping match replaced: the
\* text up to the first match, its replacement, and the same from the end of the match.
SubFrom(s, ic, pat, repl, from) ==
    With2(from, FirstMatch(s, ic, pat, from), LAMBDA i, m :
        IF ~m.ok THEN SubSeq(s, i, Len(s))
        ELSE SubSeq(s, i, m.start - 1) \o Expand(repl, m.groups)
                \o SubFrom(s, ic, pat, repl, m.end))

\* re.sub(pattern, replacement, text) and
\* re.sub(pattern, replacement, text, flags=re.IGNORECASE)
ReSub(pat, repl, ic, text) == With(text, LAMBDA s : SubFrom(s, ic, pat, repl, 1))

\* re.sub(r'\s+', ' ', text): every maximal run of whitespace becomes one space, so the
\* result is the words of the text joined by single spaces, with one space in front if
\* the text starts with whitespace and one at the end if it ends with whitespace.
CollapseWhitespace(text) ==
    With(text, LAMBDA s :
        IF s = "" THEN ""
        ELSE IF \A i \in 1..Len(s) : IsSpace(Char(s, i)) THEN " "
        ELSE (IF IsSpace(Char(s, 1)) THEN " " ELSE "") \o Join(Split(s), " ")
                \o (IF IsSpace(Char(s, Len(s))) THEN " " ELSE ""))

(***************************************************************************)
(* OverflowManager: the tables of the compression strategies               *)
(***************************************************************************)
compression_strategies ==
    <<"remove_redundancy", "use_abbreviations", "simplify_language",
      "remove_optional_words", "compact_numbers">>

\* The dictionary in insertion order, as <<full_term, abbrev>>.
german_abbreviations ==
    <<
        <<"millimetro", "mm">>,
        <<"millimetri", "mm">>,
        <<"centimetro", "cm">>,
        <<"centimetri", "cm">>,
        <<"chilogrammo", "kg">>,
        <<"chilogrammi", "kg">>,
        <<"kilonewton", "kN">>,
        <<"metri quadri", "m²">>,
        <<"metro quadro", "m²">>,
        <<"installazione", "Install.">>,
        <<"montaggio", "Mont.">>,
        <<"verificare", "verif.">>,
        <<"controllare", "kontroll.">>,
        <<"assicurare", "sicherstell.">>,
        <<"utilizzare", "verwend.">>,
        <<"secondo", "gem.">>,
        <<"conforme", "gem.">>,
        <<"istruzioni", "Anweis.">>,
        <<"manuale", "Handb.">>,
        <<"documento", "Dok.">>,
        <<"pagina", "S.">>,
        <<"figura", "Abb.">>,
        <<"tabella", "Tab.">>,
        <<"capitolo", "Kap.">>,
        <<"sezione", "Abschn.">>,
        <<"paragrafo", "Abs.">>,
        <<"per maggiori informazioni", "für Details">>,
        <<"come mostrato nella figura", "siehe Abb.">>,
        <<"secondo le istruzioni", "gem. Anweis.">>,
        <<"in base al tipo", "je nach Typ">>,
        <<"durante il montaggio", "bei Mont.">>,
        <<"dispositivo di protezione individuale", "PSA">>,
        <<"equipaggiamento di protezione individuale", "PSA">>,
        <<"dispositivo anticaduta", "Absturzsich.">>,
        <<"sistema di sicurezza", "Sich.syst.">>,
        <<"dokumentenphase", "Dok.phase">>,
        <<"inspektionsphase", "Inspektion">>,
        <<"überprüfungsphase", "Prüfphase">>,
        <<"vorbereitung", "Vorberei.">>,
        <<"durchführung", "Durchf.">>,
        <<"nachbereitung", "Nachberei.">>,
        <<"systemüberprüfung", "Systemprüf.">>,
        <<"funktionalitätsprüfung", "Funkt.prüf.">>,
        <<"qualitätskontrolle", "Qual.kontr.">>,
        <<"wiederbeschaffung", "Wiederbesc.">>,
        <<"beschaffung", "Beschaf.">>,
        <<"bauakte", "Bauakte">>,
        <<"technisches dachdokument", "Techn.Dachdok.">>,
        <<"installationsakte", "Install.akte">>,
        <<"bedienungsanleitung", "Bedien.anl.">>,
        <<"wartungsanleitung", "Wart.anl.">>,
        <<"wartungsanleitungen", "Wart.anl.">>,
        <<"verfügbare dokumentation", "Verfügb.Dok.">>,
        <<"dokumentation verfügbar", "Dok.verfügb.">>,
        <<"teilweise verfügbar", "Teilw.verfügb.">>,
        <<"sichtprüfung", "Sichtpr.">>,
        <<"funktionsprüfung", "Funkt.pr.">>,
        <<"instrumentelle prüfung", "Instrum.pr.">>,
        <<"messtechnische prüfung", "Messtech.pr.">>,
        <<"abdeckungsverhältnisse", "Abdeck.verh.">>,
        <<"gehäuse inspizieren", "Gehäuse inspi.">>,
        <<"komponenten prüfen", "Komp.prüf.">>,
        <<"gerätekonfiguration", "Geräte-config">>,
        <<"systemkonfiguration", "System-config">>,
        <<"überprüfen sie", "prüfen Sie">>,
        <<"kontrollieren sie", "kontrolli. Sie">>,
        <<"inspizieren sie", "inspizi. Sie">>,
        <<"sicherstellen", "sicherst.">>,
        <<"gewährleisten", "gewährl.">>,
        <<"befolgen sie", "befolg. Sie">>,
        <<"beachten sie", "beacht. Sie">>,
        <<"berücksichtigen", "berücks.">>,
        <<"durchführen", "durchf.">>,
        <<"ausführen", "ausf.">>,
        <<"visionieren", "vision.">>,
        <<"komponenten", "Komp.">>,
        <<"bauteile", "Baut.">>,
        <<"einzelteile", "Einzelt.">>,
        <<"ersatzteile", "Ersatzt.">>,
        <<"verschleißteile", "Verschl.t.">>,
        <<"verschleißkittel", "Verschl.kitt.">>,
        <<"befestigungselemente", "Befest.elem.">>,
        <<"verbindungselemente", "Verbind.elem.">>,
        <<"anschlusselemente", "Anschl.elem.">>,
        <<"beschädigte komponenten", "beschäd.Komp.">>,
        <<"verformte komponenten", "verform.Komp.">>,
        <<"korrosion", "Korros.">>,
        <<"verschleiß", "Verschl.">>,
        <<"abnutzung", "Abnut.">>,
        <<"verformung", "Verform.">>,
        <<"integritätsprüfung", "Integr.prüf.">>,
        <<"zustandsprüfung", "Zust.prüf.">>,
        <<"effizienz der beweglichen teile", "Effiz.bewegl.Teile">>,
        <<"bewegliche teile", "bewegl.Teile">>,
        <<"korrekte montage", "korr.Montage">>,
        <<"ordnungsgemäße installation", "ordnungsg.Install.">>,
        <<"fachgerechte montage", "fachger.Mont.">>,
        <<"verfahren zur inspektion", "Inspekt.verfahr.">>,
        <<"inspektionsverfahren", "Inspekt.verfahr.">>,
        <<"prüfverfahren", "Prüfverfahr.">>,
        <<"ablaufverfahren", "Ablaufverfahr.">>,
        <<"arbeitsverfahren", "Arbeitsverfahr.">>,
        <<"grundstrukturen", "Grundstrukt.">>,
        <<"angemessene dokumentation", "angem.Dok.">>,
        <<"ersetzen sie", "ersetz. Sie">>,
        <<"austauschen", "austausch.">>,
        <<"erneuern", "erneu.">>,
        <<"zertifizierung", "Zertif.">>,
        <<"neue zertifizierung", "neue Zertif.">>,
        <<"freigeben der dokumentation", "Freig.Dok.">>,
        <<"dokumentation freigeben", "Dok.freigeb.">>,
        <<"installation", "Install.">>,
        <<"installationsbereiche", "Install.bereich.">>
    >>

\* <<pattern, replacement>>, applied in this order under IGNORECASE.
redundancy_patterns ==
    <<
        <<(<<Boundary, WordGroup, Ws1, Ref(1), Boundary>>), <<Grp(1)>> >>,
        <<(<<Boundary, Alt(<<"der", "die", "das">>), Ws1,
             Alt(<<"der", "die", "das">>), Boundary>>), <<Grp(1)>> >>,
        <<(<<Lit("es ist notwendig zu")>>), <<Lit("zu")>> >>,
        <<(<<Lit("es ist wichtig zu")>>), <<Lit("zu")>> >>,
        <<(<<Lit("stellen sie sicher, dass")>>), <<Lit("sicherstellen:")>> >>,
        <<(<<Lit("achten sie darauf, dass")>>), <<Lit("beachten:")>> >>,
        <<(<<Lit("bitte beachten sie")>>), <<Lit("beachten")>> >>,
        <<(<<Lit("wir empfehlen")>>), <<Lit("empfohlen:")>> >>,
        <<(<<Lit("es wird empfohlen")>>), <<Lit("empfohlen:")>> >>,
        <<(<<Lit("darüber hinaus")>>), <<Lit("außerdem")>> >>,
        <<(<<Lit("zusätzlich dazu")>>), <<Lit("zusätzlich")>> >>,
        <<(<<Lit("abgesehen davon")>>), <<Lit("außerdem")>> >>
    >>

optional_words ==
    {"auch", "außerdem", "bereits", "dabei", "danach", "dann", "dazu", "entsprechend", "eventuell", "gegebenenfalls", "hierzu", "jeweilig", "noch", "schon", "zusätzlich"}

\* The simplifications of _simplify_language, applied in this order under IGNORECASE.
simplifications ==
    <<
        <<(<<Lit("wird"), Ws1, WordGroup>>), <<Grp(1), Lit("t")>> >>,
        <<(<<Lit(","), Ws0, Lit("der"), Ws1, WordGroup, Ws1, Lit("ist")>>),
          <<Lit(" ("), Grp(1), Lit(")")>> >>,
        <<(<<Lit(","), Ws0, Lit("die"), Ws1, WordGroup, Ws1, Lit("ist")>>),
          <<Lit(" ("), Grp(1), Lit(")")>> >>,
        <<(<<Lit(","), Ws0, Lit("das"), Ws1, WordGroup, Ws1, Lit("ist")>>),
          <<Lit(" ("), Grp(1), Lit(")")>> >>,
        <<(<<Lit("in"), Ws1, Lit("der"), Ws1, Lit("regel")>>), <<Lit("normalerweise")>> >>,
        <<(<<Lit("im"), Ws1, Lit("falle"), Ws1, Lit("von")>>), <<Lit("bei")>> >>,
        <<(<<Lit("mit"), Ws1, Lit("hilfe"), Ws1, Lit("von")>>), <<Lit("mit")>> >>,
        <<(<<Lit("aufgrund"), Ws1, Lit("von")>>), <<Lit("wegen")>> >>,
        <<(<<Lit("sowohl"), Ws1, WordGroup, Ws1, Lit("als"), Ws1, Lit("auch"), Ws1,
             WordGroup>>), <<Grp(1), Lit(" und "), Grp(2)>> >>,
        <<(<<Lit("nicht"), Ws1, Lit("nur"), Ws1, WordGroup, Ws1, Lit("sondern"), Ws1,
             Lit("auch"), Ws1, WordGroup>>), <<Grp(1), Lit(" und "), Grp(2)>> >>
    >>

\* The compactions of _compact_numbers, applied in this order, case-sensitive.
compactions ==
    <<
        <<(<<NumGroup, Lit(","), NumGroup>>), <<Grp(1), Lit("."), Grp(2)>> >>,
        <<(<<Lit("von"), Ws1, NumGroup, Ws1, Lit("bis"), Ws1, NumGroup>>),
          <<Grp(1), Lit("-"), Grp(2)>> >>,
        <<(<<Lit("zwischen"), Ws1, NumGroup, Ws1, Lit("und"), Ws1, NumGroup>>),
          <<Grp(1), Lit("-"), Grp(2)>> >>,
        <<(<<NumGroup, Ws1, Lit("x"), Ws1, NumGroup>>), <<Grp(1), Lit("x"), Grp(2)>> >>,
        <<(<<NumGroup, Ws1, Lit("/"), Ws1, NumGroup>>), <<Grp(1), Lit("/"), Grp(2)>> >>,
        <<(<<NumGroup, Ws1, Lit("Prozent")>>), <<Grp(1), Lit("%")>> >>,
        <<(<<NumGroup, Ws1, Lit("prozent")>>), <<Grp(1), Lit("%")>> >>
    >>

(***************************************************************************)
(* OverflowManager: the compression strategies                             *)
(***************************************************************************)
RECURSIVE SubEach(_, _, _, _)
\* for pattern, replacement in table: result = re.sub(pattern, replacement, result, ...)
\* from entry from on.  re.sub returns the text itself when the pattern does not occur,
\* so the next entry that changes anything is the first one whose pattern occurs.
SubEach(table, from, ic, text) ==
    With2(from, text, LAMBDA k, s :
    With({n \in k..Len(table) : ReSearch(table[n][1], ic, s)}, LAMBDA hits :
        IF hits = {} THEN s
        ELSE With(Minimum(hits), LAMBDA n :
                 SubEach(table, n + 1, ic, ReSub(table[n][1], table[n][2], ic, s)))))

\* The substitutions alone, without re.sub(r'\s+', ' ', result).strip().
RemoveRedundancyKeepingWhitespace(text) == SubEach(redundancy_patterns, 1, TRUE, text)

RemoveRedundancy(text) ==
    Strip(CollapseWhitespace(SubEach(redundancy_patterns, 1, TRUE, text)))

\* pattern = r'\b' + re.escape(full_term) + r'\b'
AbbreviationPattern(k) == <<Boundary, Lit(german_abbreviations[k][1]), Boundary>>

\* The lower-cased substrings of s that start and end at a word boundary: the terms
\* for which r'\b' + term + r'\b' occurs in s under IGNORECASE.
BoundedSubstrings(s) ==
    With2(Lower(s), {i \in 1..(Len(s) + 1) : AtBoundary(s, i)}, LAMBDA low, bounds :
        UNION {{SubSeq(low, i, j - 1) : j \in {b \in bounds : b > i}} : i \in bounds})

RECURSIVE AbbreviateFrom(_, _)
\* for full_term, abbrev in german_abbreviations.items(): result = re.sub(...), from
\* entry from on: the entries whose term does not occur leave the text as it is.
AbbreviateFrom(from, text) ==
    With2(from, text, LAMBDA k, s :
    With(BoundedSubstrings(s), LAMBDA terms :
    With({n \in k..Len(german_abbreviations) : german_abbreviations[n][1] \in terms},
         LAMBDA hits :
        IF hits = {} THEN s
        ELSE With(Minimum(hits), LAMBDA n :
                 AbbreviateFrom(n + 1,
                    ReSub(AbbreviationPattern(n), <<Lit(german_abbreviations[n][2])>>,
                          TRUE, s))))))

ApplyAbbreviations(text) == AbbreviateFrom(1, text)

SimplifyLanguage(text) == SubEach(simplifications, 1, TRUE, text)

\* clean_word = re.sub(r'[^\w]', '', word.lower())
CleanWord(word) == KeepChars(Lower(word), WordChars)

RemoveOptionalWords(text) ==
    Join(SelectSeq(Split(text), LAMBDA w : CleanWord(w) \notin optional_words), " ")

CompactNumbers(text) == SubEach(compactions, 1, FALSE, text)

ApplyCompressionStrategy(text, strategy) ==
    CASE strategy = "remove_redundancy" -> RemoveRedundancy(text)
      [] strategy = "use_abbreviations" -> ApplyAbbreviations(text)
      [] strategy = "simplify_language" -> SimplifyLanguage(text)
      [] strategy = "remove_optional_words" -> RemoveOptionalWords(text)
      [] strategy = "compact_numbers" -> CompactNumbers(text)
      [] OTHER -> text

(***************************************************************************)
(* OverflowManager: resolution                                             *)
(***************************************************************************)
OverflowResolution(original, resolved, method, saved, success, notes) ==
    [original_text |-> original, resolved_text |-> resolved,
     resolution_method |-> method, space_saved |-> saved, success |-> success,
     notes |-> notes]

\* The body of the inner loop up to the length check: one strategy applied to the
\* loop state [current_text, methods_used, total_saved].
StrategyStep(st, strategy) ==
    With(ApplyCompressionStrategy(st.current_text, strategy), LAMBDA new_text :
    With(Len(st.current_text) - Len(new_text), LAMBDA saved :
        [current_text |-> new_text,
         methods_used |-> IF saved > 0 THEN Append(st.methods_used, strategy)
                          ELSE st.methods_used,
         total_saved |-> IF saved > 0 THEN st.total_saved + saved ELSE st.total_saved]))

RECURSIVE StrategyPass(_, _, _)
\* for strategy in compression_strategies, from strategy k on, with its break.
StrategyPass(st, k, target_length) ==
    IF k > Len(compression_strategies) THEN st
    ELSE With(StrategyStep(st, compression_strategies[k]), LAMBDA next :
             IF Len(next.current_text) <= target_length THEN next
             ELSE StrategyPass(next, k + 1, target_length))

RECURSIVE Iterations(_, _, _, _)
\* for iteration in range(max_iterations), from this iteration on, with its break.
Iterations(state, iteration, max_iterations, target_length) ==
    With(state, LAMBDA st :
        IF iteration >= max_iterations \/ Len(st.current_text) <= target_length THEN st
        ELSE Iterations(StrategyPass(st, 1, target_length), iteration + 1,
                        max_iterations, target_length))

\* One more iteration than range(max_iterations) has.
MoreIterationsInclusive(done, limit) == done <= limit

\* for iteration in range(max_iterations): an iteration is left after done of them
MoreIterations(done, limit) == done < limit

\* The check with < in the place of <=.
TargetMetStrictly(st, target_length) == Len(st.current_text) < target_length

\* len(current_text) <= target_length, the condition of both breaks
TargetMet(st, target_length) == Len(st.current_text) <= target_length

\* What _resolve_single_overflow returns from the state its loops end in.
ResolutionOf(pred, st) ==
    OverflowResolution(
        pred.original_text,
        st.current_text,
        IF st.methods_used # <<>> THEN Join(st.methods_used, "+") ELSE "no_compression",
        st.total_saved,
        Len(st.current_text) <= pred.recommended_max_length,
        "Lunghezza finale: " \o ToString(Len(st.current_text)) \o "/"
            \o ToString(pred.recommended_max_length) \o ". "
            \o (IF st.methods_used # <<>>
                THEN "Strategie: " \o Join(st.methods_used, ", ")
                ELSE "Nessuna compressione applicata"))

ResolveSingleOverflow(prediction, max_iterations) ==
    With2(prediction, prediction.recommended_max_length, LAMBDA pred, target_length :
    With(Iterations([current_text |-> pred.original_text, methods_used |-> <<>>,
                     total_saved |-> 0], 0, max_iterations, target_length),
         LAMBDA st :
        OverflowResolution(
            pred.original_text,
            st.current_text,
            IF st.methods_used # <<>> THEN Join(st.methods_used, "+") ELSE "no_compression",
            st.total_saved,
            Len(st.current_text) <= target_length,
            "Lunghezza finale: " \o ToString(Len(st.current_text)) \o "/"
                \o ToString(target_length) \o ". "
                \o (IF st.methods_used # <<>>
                    THEN "Strategie: " \o Join(st.methods_used, ", ")
                    ELSE "Nessuna compressione applicata"))))

\* The pass-through with success computed from the length, as _resolve_single_overflow
\* computes it.
NoActionNeededIfShort(prediction) ==
    OverflowResolution(prediction.original_text, prediction.original_text,
                       "no_action_needed", 0,
                       Len(prediction.original_text) <= prediction.recommended_max_length,
                       "Nessun overflow previsto")

\* The resolution of a prediction whose overflow_risk is <= 1.0.
NoActionNeeded(prediction) ==
    OverflowResolution(prediction.original_text, prediction.original_text,
                       "no_action_needed", 0, TRUE, "Nessun overflow previsto")

ResolveOne(prediction, max_iterations) ==
    IF RiskAtMostOne(prediction.overflow_risk)
    THEN NoActionNeeded(prediction)
    ELSE ResolveSingleOverflow(prediction, max_iterations)

ResolveOverflowPredictions(preds, max_iterations) ==
    [i \in 1..Len(preds) |-> ResolveOne(preds[i], max_iterations)]

\* max_iterations: int = 3, the default of resolve_overflow_predictions
DefaultMaxIterations == 3

(***************************************************************************)
(* OverflowManager.apply_text_compression                                  *)
(***************************************************************************)
\* int(len(text) * (1 - target_reduction / 100)); for the percentages and the text
\* lengths of the model the double product truncates to the exact floor.
TargetLength(text, target_reduction) == (Len(text) * (100 - target_reduction)) \div 100

\* zip(texts, target_reductions) stops at the shorter list.
ZipLength(txts, reductions) == Min(Len(txts), Len(reductions))

\* The pair i is compressed through a mock prediction (its reduction is positive).
IsCompressed(txts, reductions, i) == reductions[i] > 0

\* len(text) / target_length divides by zero.
MockRaises(txts, reductions) ==
    \E i \in 1..ZipLength(txts, reductions) :
        IsCompressed(txts, reductions, i) /\ TargetLength(txts[i], reductions[i]) = 0

MockPrediction(text, target_reduction) ==
    OverflowPrediction(text, Len(text), TargetLength(text, target_reduction),
                       Risk(Len(text), TargetLength(text, target_reduction)),
                       TargetLength(text, target_reduction), "mock_frame", <<>>)

\* The mock predictions of a call, in the order they are built.
MockPredictions(txts, reductions) ==
    LET idx == {i \in 1..ZipLength(txts, reductions) : IsCompressed(txts, reductions, i)}
    IN  [n \in 1..Cardinality(idx) |->
            LET i == CHOOSE j \in idx : Cardinality({h \in idx : h < j}) = n - 1
            IN  MockPrediction(txts[i], reductions[i])]

CompressedTexts(txts, reductions) ==
    [i \in 1..ZipLength(txts, reductions) |->
        IF IsCompressed(txts, reductions, i)
        THEN ResolveSingleOverflow(MockPrediction(txts[i], reductions[i]),
                                   DefaultMaxIterations).resolved_text
        ELSE txts[i]]

(***************************************************************************)
(* EnhancedTranslationPostProcessor._intelligent_truncation                *)
(***************************************************************************)
\* The characters of re.split(r'[.!?]', text)
SentenceEnds == {".", "!", "?"}

\* len(sentences) > 1
HasSentenceEnd(s) == \E i \in 1..Len(s) : Char(s, i) \in SentenceEnds

\* sentences[0]: the text before its first sentence end.
FirstSentence(s) ==
    With(CharsOf(s) \ SentenceEnds, LAMBDA others : SubSeq(s, 1, RunEnd(s, 1, others) - 1))

\* s[:n]
Prefix(s, n) ==
    IF n >= 0 THEN SubSeq(s, 1, Min(n, Len(s))) ELSE SubSeq(s, 1, Max(Len(s) + n, 0))

RECURSIVE TruncatedWords(_, _, _, _)
\* The number of words the loop keeps, from word k on with current_length so far.
TruncatedWords(words, k, current_length, limit) ==
    IF k > Len(words) THEN k - 1
    ELSE IF current_length + Len(words[k]) + 1 <= limit - 3
    THEN TruncatedWords(words, k + 1, current_length + Len(words[k]) + 1, limit)
    ELSE k - 1

\* The cut at the target length itself, with the ellipsis on top of it.
HardCutWithoutReserve(text, limit) == Prefix(text, limit) \o "..."

\* text[:max_length-3] + '...'
HardCut(text, limit) == Prefix(text, limit - 3) \o "..."

\* The first sentence taken whatever its length.
SentenceFitsAlways(s, limit) == TRUE

\* len(truncated) <= max_length, for truncated = sentences[0] + '.'
SentenceFits(s, limit) == Len(FirstSentence(s) \o ".") <= limit

IntelligentTruncation(text, limit) ==
    With(text, LAMBDA s :
        IF Len(s) <= limit THEN s
        ELSE IF HasSentenceEnd(s) /\ SentenceFits(s, limit)
        THEN FirstSentence(s) \o "."
        ELSE With(Split(s), LAMBDA words :
             With(TruncatedWords(words, 1, 0, limit), LAMBDA n :
                 IF n > 0 THEN Join(SubSeq(words, 1, n), " ") \o "..."
                 ELSE HardCut(s, limit))))

(***************************************************************************)
(* EnhancedTranslationPostProcessor.apply_overflow_corrections              *)
(***************************************************************************)
\* r'\b' + re.escape(full_form) + r'\b' and abbrev, for the entries of the dictionary in
\* their order; case-sensitive.
aggressive_abbrevs ==
    <<
        <<(<<Boundary, Lit("Abbildung"), Boundary>>), <<Lit("Abb.")>> >>,
        <<(<<Boundary, Lit("Tabelle"), Boundary>>), <<Lit("Tab.")>> >>,
        <<(<<Boundary, Lit("Seite"), Boundary>>), <<Lit("S.")>> >>,
        <<(<<Boundary, Lit("Kapitel"), Boundary>>), <<Lit("Kap.")>> >>,
        <<(<<Boundary, Lit("Paragraph"), Boundary>>), <<Lit("Par.")>> >>,
        <<(<<Boundary, Lit("Installation"), Boundary>>), <<Lit("Install.")>> >>,
        <<(<<Boundary, Lit("Montage"), Boundary>>), <<Lit("Mont.")>> >>,
        <<(<<Boundary, Lit("Kontrolle"), Boundary>>), <<Lit("Kontroll.")>> >>,
        <<(<<Boundary, Lit("Überprüfung"), Boundary>>), <<Lit("Überpr.")>> >>,
        <<(<<Boundary, Lit("Sicherheit"), Boundary>>), <<Lit("Sich.")>> >>,
        <<(<<Boundary, Lit("Anweisung"), Boundary>>), <<Lit("Anw.")>> >>,
        <<(<<Boundary, Lit("Anweisungen"), Boundary>>), <<Lit("Anw.")>> >>,
        <<(<<Boundary, Lit("Handbuch"), Boundary>>), <<Lit("Handb.")>> >>,
        <<(<<Boundary, Lit("Dokument"), Boundary>>), <<Lit("Dok.")>> >>,
        <<(<<Boundary, Lit("Material"), Boundary>>), <<Lit("Mat.")>> >>,
        <<(<<Boundary, Lit("System"), Boundary>>), <<Lit("Syst.")>> >>,
        <<(<<Boundary, Lit("Komponente"), Boundary>>), <<Lit("Komp.")>> >>,
        <<(<<Boundary, Lit("Element"), Boundary>>), <<Lit("Elem.")>> >>,
        <<(<<Boundary, Lit("Befestigungen"), Boundary>>), <<Lit("Befest.")>> >>,
        <<(<<Boundary, Lit("Position"), Boundary>>), <<Lit("Pos.")>> >>,
        <<(<<Boundary, Lit("Oberflächenbehandlung"), Boundary>>), <<Lit("Oberfl.")>> >>,
        <<(<<Boundary, Lit("Kennzeichnung"), Boundary>>), <<Lit("Kennz.")>> >>,
        <<(<<Boundary, Lit("Kundendienst"), Boundary>>), <<Lit("Service")>> >>,
        <<(<<Boundary, Lit("Inhaltsverzeichnis"), Boundary>>), <<Lit("Inhalt")>> >>,
        <<(<<Boundary, Lit("zum Beispiel"), Boundary>>), <<Lit("z.B.")>> >>,
        <<(<<Boundary, Lit("das heißt"), Boundary>>), <<Lit("d.h.")>> >>,
        <<(<<Boundary, Lit("unter anderem"), Boundary>>), <<Lit("u.a.")>> >>,
        <<(<<Boundary, Lit("und so weiter"), Boundary>>), <<Lit("usw.")>> >>,
        <<(<<Boundary, Lit("beziehungsweise"), Boundary>>), <<Lit("bzw.")>> >>,
        <<(<<Boundary, Lit("gegebenenfalls"), Boundary>>), <<Lit("ggf.")>> >>,
        <<(<<Boundary, Lit("in der Regel"), Boundary>>), <<Lit("i.d.R.")>> >>,
        <<(<<Boundary, Lit("im Allgemeinen"), Boundary>>), <<Lit("i.A.")>> >>,
        <<(<<Boundary, Lit("Millimeter"), Boundary>>), <<Lit("mm")>> >>,
        <<(<<Boundary, Lit("Zentimeter"), Boundary>>), <<Lit("cm")>> >>,
        <<(<<Boundary, Lit("Kilogramm"), Boundary>>), <<Lit("kg")>> >>,
        <<(<<Boundary, Lit("Gramm"), Boundary>>), <<Lit("g")>> >>,
        <<(<<Boundary, Lit("Kilonewton"), Boundary>>), <<Lit("kN")>> >>,
        <<(<<Boundary, Lit("Newton"), Boundary>>), <<Lit("N")>> >>,
        <<(<<Boundary, Lit("oben"), Boundary>>), <<Lit("o.")>> >>,
        <<(<<Boundary, Lit("unten"), Boundary>>), <<Lit("u.")>> >>,
        <<(<<Boundary, Lit("links"), Boundary>>), <<Lit("l.")>> >>,
        <<(<<Boundary, Lit("rechts"), Boundary>>), <<Lit("r.")>> >>,
        <<(<<Boundary, Lit("vorne"), Boundary>>), <<Lit("v.")>> >>,
        <<(<<Boundary, Lit("hinten"), Boundary>>), <<Lit("h.")>> >>
    >>

removable_words ==
    {"auch", "außerdem", "bereits", "dabei", "danach", "dann", "dazu", "entsprechend",
     "eventuell", "gegebenenfalls", "grundsätzlich", "hierzu", "jeweilig", "jeweils",
     "möglicherweise", "natürlich", "noch", "normalerweise", "offensichtlich", "schon",
     "selbstverständlich", "zusätzlich", "üblicherweise"}

\* <<pattern, replacement>>, applied in this order, case-sensitive.
reducible_patterns ==
    <<
        <<(<<Boundary, Lit("der"), Ws1>>), <<>> >>,
        <<(<<Boundary, Lit("die"), Ws1>>), <<>> >>,
        <<(<<Boundary, Lit("das"), Ws1>>), <<>> >>,
        <<(<<Boundary, Lit("einer"), Ws1>>), <<>> >>,
        <<(<<Boundary, Lit("eines"), Ws1>>), <<>> >>,
        <<(<<Boundary, Lit("einem"), Ws1>>), <<>> >>,
        <<(<<Boundary, Lit("zu"), Ws1, Lit("dem"), Boundary>>), <<Lit("zum")>> >>,
        <<(<<Boundary, Lit("zu"), Ws1, Lit("der"), Boundary>>), <<Lit("zur")>> >>,
        <<(<<Boundary, Lit("in"), Ws1, Lit("dem"), Boundary>>), <<Lit("im")>> >>,
        <<(<<Boundary, Lit("von"), Ws1, Lit("dem"), Boundary>>), <<Lit("vom")>> >>,
        <<(<<Boundary, Lit("an"), Ws1, Lit("dem"), Boundary>>), <<Lit("am")>> >>
    >>

\* <<pattern, replacement>>, applied in this order, case-sensitive.  (?!\\w) in a raw
\* string is the lookahead for a backslash and a w.
aggressive_patterns ==
    <<
        <<(<<NumGroup, Ws0, Lit("bis"), Ws0, NumGroup>>), <<Grp(1), Lit("-"), Grp(2)>> >>,
        <<(<<NumGroup, Ws0, Lit("-"), Ws0, NumGroup>>), <<Grp(1), Lit("-"), Grp(2)>> >>,
        <<(<<Lit("von"), Ws0, NumGroup, Ws0, Lit("bis"), Ws0, NumGroup>>), <<Grp(1), Lit("-"), Grp(2)>> >>,
        <<(<<Lit("zwischen"), Ws0, NumGroup, Ws0, Lit("und"), Ws0, NumGroup>>), <<Grp(1), Lit("-"), Grp(2)>> >>,
        <<(<<NumGroup, Ws0, Lit("x"), Ws0, NumGroup>>), <<Grp(1), Lit("x"), Grp(2)>> >>,
        <<(<<NumGroup, Ws0, Lit("/"), Ws0, NumGroup>>), <<Grp(1), Lit("/"), Grp(2)>> >>,
        <<(<<NumGroup, Ws0, Lit(":"), Ws0, NumGroup>>), <<Grp(1), Lit(":"), Grp(2)>> >>,
        <<(<<NumGroup, Lit(","), NumGroup>>), <<Grp(1), Lit("."), Grp(2)>> >>,
        <<(<<NumGroup, Ws0, Lit("Grad"), Ws0, Lit("Celsius")>>), <<Grp(1), Lit("°C")>> >>,
        <<(<<NumGroup, Ws0, Lit("Prozent")>>), <<Grp(1), Lit("%")>> >>,
        <<(<<NumGroup, Ws0, Lit("prozent")>>), <<Grp(1), Lit("%")>> >>,
        <<(<<NumGroup, Ws0, Lit("Millimeter")>>), <<Grp(1), Lit("mm")>> >>,
        <<(<<NumGroup, Ws0, Lit("Zentimeter")>>), <<Grp(1), Lit("cm")>> >>,
        <<(<<NumGroup, Ws0, Lit("Meter"), NotAhead("\\w")>>), <<Grp(1), Lit("m")>> >>,
        <<(<<NumGroup, Ws0, Lit("Kilogramm")>>), <<Grp(1), Lit("kg")>> >>,
        <<(<<NumGroup, Ws0, Lit("Gramm"), NotAhead("\\w")>>), <<Grp(1), Lit("g")>> >>
    >>

\* <<pattern, replacement>>, applied in this order under IGNORECASE.  The source writes
\* \\s in raw strings: a backslash and the letter s, not whitespace.
grammar_reductions ==
    <<
        <<(<<Lit("es\\"), Plus("s"), Lit("ist\\"), Plus("s"), Lit("notwendig"), Opt(","), Lit("\\"), Star("s")>>), <<>> >>,
        <<(<<Lit("es\\"), Plus("s"), Lit("ist\\"), Plus("s"), Lit("wichtig"), Opt(","), Lit("\\"), Star("s")>>), <<>> >>,
        <<(<<Lit("es\\"), Plus("s"), Lit("ist\\"), Plus("s"), Lit("erforderlich"), Opt(","), Lit("\\"), Star("s")>>), <<>> >>,
        <<(<<Lit("stellen\\"), Plus("s"), Lit("sie\\"), Plus("s"), Lit("sicher,\\"), Star("s"), Lit("dass")>>), <<Lit("sicherstellen:")>> >>,
        <<(<<Lit("achten\\"), Plus("s"), Lit("sie\\"), Plus("s"), Lit("darauf,\\"), Star("s"), Lit("dass")>>), <<Lit("beachten:")>> >>,
        <<(<<Lit("sorgen\\"), Plus("s"), Lit("sie\\"), Plus("s"), Lit("dafür,\\"), Star("s"), Lit("dass")>>), <<Lit("sicherstellen:")>> >>,
        <<(<<Lit("bitte\\"), Plus("s"), Lit("beachten\\"), Plus("s"), Lit("sie")>>), <<Lit("beachten")>> >>,
        <<(<<Lit("wir\\"), Plus("s"), Lit("empfehlen\\"), Plus("s"), Lit("ihnen")>>), <<Lit("empfohlen:")>> >>,
        <<(<<Lit("es\\"), Plus("s"), Lit("wird\\"), Plus("s"), Lit("empfohlen")>>), <<Lit("empfohlen:")>> >>,
        <<(<<Lit("sie\\"), Plus("s"), Lit("sollten")>>), <<Lit("sollten")>> >>,
        <<(<<Lit("darüber\\"), Plus("s"), Lit("hinaus")>>), <<Lit("außerdem")>> >>,
        <<(<<Lit("zusätzlich\\"), Plus("s"), Lit("dazu")>>), <<Lit("zusätzlich")>> >>,
        <<(<<Lit("abgesehen\\"), Plus("s"), Lit("davon")>>), <<Lit("außerdem")>> >>,
        <<(<<Lit("im\\"), Plus("s"), Lit("hinblick\\"), Plus("s"), Lit("auf")>>), <<Lit("für")>> >>,
        <<(<<Lit("mit\\"), Plus("s"), Lit("bezug\\"), Plus("s"), Lit("auf")>>), <<Lit("bezüglich")>> >>,
        <<(<<Lit("in\\"), Plus("s"), Lit("bezug\\"), Plus("s"), Lit("auf")>>), <<Lit("bezüglich")>> >>,
        <<(<<Lit("sowohl\\"), Plus("s"), LitPlusGroup("\\", "w"), Lit("\\"), Plus("s"), Lit("als\\"), Plus("s"), Lit("auch\\"), Plus("s"), LitPlusGroup("\\", "w")>>), <<Grp(1), Lit(" und "), Grp(2)>> >>,
        <<(<<Lit("nicht\\"), Plus("s"), Lit("nur\\"), Plus("s"), LitPlusGroup("\\", "w"), Lit("\\"), Plus("s"), Lit("sondern\\"), Plus("s"), Lit("auch\\"), Plus("s"), LitPlusGroup("\\", "w")>>), <<Grp(1), Lit(" und "), Grp(2)>> >>,
        <<(<<Lit("entweder\\"), Plus("s"), LitPlusGroup("\\", "w"), Lit("\\"), Plus("s"), Lit("oder\\"), Plus("s"), LitPlusGroup("\\", "w")>>), <<Grp(1), Lit(" oder "), Grp(2)>> >>
    >>

\* _apply_aggressive_abbreviations(text, target_language)
ApplyAggressiveAbbreviations(text, language) ==
    IF language # "de" THEN text ELSE SubEach(aggressive_abbrevs, 1, FALSE, text)

\* _remove_non_essential_words(text, target_language)
RemoveNonEssentialWords(text, language) ==
    IF language # "de" THEN text
    ELSE SubEach(reducible_patterns, 1, FALSE,
                 Join(SelectSeq(Split(text), LAMBDA w : CleanWord(w) \notin removable_words),
                      " "))

\* _compact_measurements_aggressive(text)
CompactMeasurementsAggressive(text) == SubEach(aggressive_patterns, 1, FALSE, text)

\* _apply_grammatical_reductions(text, target_language), with its last line
\* re.sub(r'\\s+', ' ', result).strip()
ApplyGrammaticalReductions(text, language) ==
    IF language # "de" THEN text
    ELSE Strip(ReSub(<<Lit("\\"), Plus("s")>>, <<Lit(" ")>>, FALSE,
                     SubEach(grammar_reductions, 1, TRUE, text)))

\* The four corrections of the loop of apply_overflow_corrections, in their order.
ProgressiveCorrections(translation, language) ==
    ApplyGrammaticalReductions(
        CompactMeasurementsAggressive(
            RemoveNonEssentialWords(
                ApplyAggressiveAbbreviations(translation, language), language)),
        language)

\* The body of the loop of apply_overflow_corrections for one translation and its
\* max length.
CorrectOne(translation, limit, language) ==
    IF Len(translation) <= limit THEN translation
    ELSE With(ProgressiveCorrections(translation, language), LAMBDA corrected :
             IF Len(corrected) > limit THEN IntelligentTruncation(corrected, limit)
             ELSE corrected)

\* apply_overflow_corrections(translations, max_lengths, target_language): the loop is
\* over zip(translations, max_lengths).
ApplyOverflowCorrections(translation_list, limits, language) ==
    IF limits = <<>> THEN translation_list
    ELSE [n \in 1..Min(Len(translation_list), Len(limits)) |->
             CorrectOne(translation_list[n], limits[n], language)]

(***************************************************************************)
(* OverflowDetector: diagram frames.  Scores are in hundredths.  The double  *)
(* sums of the source compare with 0.6 and 0.7 as the exact sums do; a sum  *)
(* of exactly 0.8 can be 0.7999999999999999 as a double when the font bonus *)
(* is added last to 0.7, which no frame and story of the model produces.    *)
(***************************************************************************)
\* self.diagram_keywords, with the characters the source file holds.  Three of them
\* are outside the character set of the module and are written as characters of the
\* same kind (no letter, no digit, no case) that occur nowhere else: U+221A as U+00AC,
\* U+2020 as U+00A6 and, in flowchart_patterns, U+201A as U+00B8.
diagram_keywords ==
    {
        "¬ºberpr¬ºfung", "inspektion", "pr¬ºfung", "kontrolle", "verfahren",
        "dokumentation", "installation", "montage", "wartung", "funktionalit¬§t",
        "komponenten", "bauteile", "system", "verformung", "besch¬§digung",
        "effizienz", "qualit¬§t", "zertifizierung", "phase", "schritt", "prozess",
        "ablauf", "arbeitsverfahren", "sichtpr¬ºfung", "funktionspr¬ºfung",
        "ispezione", "controllo", "procedura", "documentazione", "installazione",
        "montaggio", "manutenzione", "funzionalit¬¦", "componenti", "sistema",
        "deformazione", "danneggiamento", "efficienza", "qualit¬¦", "certificazione",
        "fase", "passo", "processo", "flusso", "verifica", "controllo visivo", "ja",
        "nein", "ok", "nicht ok", "s¬¨", "no", "verificare", "sostituire", "riparare",
        "mantenere", "installare", "rimuovere", "pulire"
    }

\* flowchart_patterns, matched under IGNORECASE against the lower-cased text.
flowchart_patterns ==
    <<
        <<Boundary, Alt(<<"ja", "nein">>), Boundary>>,
        <<Boundary, Alt(<<"s¬¨", "no">>), Boundary>>,
        <<Boundary, Alt(<<"step", "schritt", "fase">>), Ws0, Digits>>,
        <<Lit("->")>>,
        <<Lit("¸üí")>>,
        <<Lit("¸üì")>>,
        <<Lit("¸üë")>>,
        <<Lit("?")>>
    >>

\* A story of stories_data: the texts and tails of the elements of its root in the
\* order of root.iter(), or a story without the key 'root'.
Story(strings) == [root |-> strings]

StoryWithoutRoot == [filename |-> "Story_u2.xml"]

\* The text a story adds to all_text.
StoryText(story) ==
    IF "root" \in DOMAIN story
    THEN Join([n \in 1..Len(story.root) |->
                  IF story.root[n] = "" THEN "" ELSE story.root[n] \o " "], "")
    ELSE ""

\* _extract_frame_text(frame_id, stories_data): the text of every story, whatever the
\* frame.
ExtractFrameText(frame_id, stories) ==
    Join([n \in 1..Len(stories) |-> StoryText(stories[n])], "")

\* The number of diagram keywords that occur in the lower-cased text.
KeywordMatches(text_lower) == Cardinality({k \in diagram_keywords : Contains(text_lower, k)})

\* The number of flowchart patterns found in the lower-cased text.
PatternMatches(text_lower) ==
    Cardinality({n \in 1..Len(flowchart_patterns) :
                    ReSearch(flowchart_patterns[n], TRUE, text_lower)})

\* The text score with the keyword counts compared for equality: nothing for four
\* keywords or more.
AnalyzeDiagramTextContentExactCounts(metrics, stories) ==
    With(ExtractFrameText(metrics.frame_id, stories), LAMBDA frame_text :
        IF frame_text = "" THEN 0
        ELSE With(Lower(frame_text), LAMBDA text_lower :
             With(KeywordMatches(text_lower), LAMBDA keyword_matches :
                 Min((IF keyword_matches = 3 THEN 80
                      ELSE IF keyword_matches = 2 THEN 60
                      ELSE IF keyword_matches = 1 THEN 40
                      ELSE 0) + 10 * PatternMatches(text_lower), 100))))

\* _analyze_diagram_text_content(metrics, stories_data)
AnalyzeDiagramTextContent(metrics, stories) ==
    With(ExtractFrameText(metrics.frame_id, stories), LAMBDA frame_text :
        IF frame_text = "" THEN 0
        ELSE With(Lower(frame_text), LAMBDA text_lower :
             With(KeywordMatches(text_lower), LAMBDA keyword_matches :
                 Min((IF keyword_matches >= 3 THEN 80
                      ELSE IF keyword_matches >= 2 THEN 60
                      ELSE IF keyword_matches >= 1 THEN 40
                      ELSE 0) + 10 * PatternMatches(text_lower), 100))))

\* aspect_ratio = width / max(height, 1) against 0.7, 1.4, 0.5 and 2.0
AspectScore(metrics) ==
    With2(10 * metrics.width, Max(metrics.height, 10), LAMBDA w, h :
        IF 7 * h <= w /\ w <= 14 * h THEN 20
        ELSE IF 5 * h <= w /\ w <= 20 * h THEN 10
        ELSE 0)

\* char_density = char_count / max(area, 1) against 0.5 and 1.0
DensityScore(metrics) ==
    With2(100 * metrics.char_count, Max(metrics.width * metrics.height, 100),
          LAMBDA chars, area :
        IF 2 * chars < area THEN 30
        ELSE IF chars < area THEN 20
        ELSE 0)

\* _calculate_diagram_score(metrics, stories_data)
CalculateDiagramScore(metrics, stories) ==
    Min(AspectScore(metrics) + DensityScore(metrics)
            + (AnalyzeDiagramTextContent(metrics, stories) * 4) \div 10
            + (IF metrics.font_size <= 100 THEN 10 ELSE 0),
        100)

\* sum(len(word) for word in frame_text.split()): the characters that are not
\* whitespace.
WordCharacters(text) == Cardinality({i \in 1..Len(text) : ~IsSpace(Char(text, i))})

\* _identify_diagram_risk_factors(metrics, stories_data)
IdentifyDiagramRiskFactors(metrics, stories) ==
    With(ExtractFrameText(metrics.frame_id, stories), LAMBDA frame_text :
        (IF metrics.width * metrics.height < 1000000 /\ metrics.char_count > 100
         THEN <<"Frame piccolo con testo denso">> ELSE <<>>)
        \o (IF metrics.font_size <= 90 THEN <<"Font gi¬¦ molto piccolo">> ELSE <<>>)
        \o (IF \A n \in 1..4 : metrics.inset_spacing[n] < 30
            THEN <<"Margini interni molto stretti">> ELSE <<>>)
        \o (IF frame_text # ""
               /\ WordCharacters(frame_text) > 8 * Max(Len(Split(frame_text)), 1)
            THEN <<"Terminologia tecnica complessa">> ELSE <<>>)
        \o (IF metrics.estimated_overflow_risk > 120
            THEN <<"Alto rischio overflow previsto">> ELSE <<>>))

\* _calculate_compression_priority(metrics, diagram_score)
CalculateCompressionPriority(metrics, diagram_score) ==
    IF diagram_score >= 80 /\ metrics.estimated_overflow_risk >= 130 THEN "critical"
    ELSE IF diagram_score >= 70 /\ metrics.estimated_overflow_risk >= 110 THEN "high"
    ELSE IF diagram_score >= 60 THEN "medium"
    ELSE "low"

\* _get_diagram_specific_strategies(metrics, diagram_score)
GetDiagramSpecificStrategies(metrics, diagram_score) ==
    (IF diagram_score >= 60
     THEN <<"use_technical_abbreviations", "compress_procedural_language",
            "simplify_decision_points">>
     ELSE <<>>)
    \o (IF diagram_score >= 80 \/ metrics.estimated_overflow_risk >= 120
        THEN <<"ultra_compact_mode", "remove_redundant_terms", "use_symbols_over_words">>
        ELSE <<>>)
    \o (IF metrics.font_size <= 90 THEN <<"avoid_font_reduction">> ELSE <<>>)

\* The threshold of detect_diagram_frames, in hundredths.
DiagramThreshold == 60

\* The entry of a frame in the result.
DiagramInfo(metrics, diagram_score, stories) ==
    [frame_id |-> metrics.frame_id,
     diagram_score |-> diagram_score,
     frame_metrics |-> metrics,
     risk_factors |-> IdentifyDiagramRiskFactors(metrics, stories),
     compression_priority |-> CalculateCompressionPriority(metrics, diagram_score),
     recommended_strategies |-> GetDiagramSpecificStrategies(metrics, diagram_score)]

\* The entries of the frames whose score is in keep, in the order of the mapping.
DiagramEntries(metrics, stories, scores, keep) ==
    With({i \in 1..Len(metrics) : scores[i] \in keep}, LAMBDA idx :
        [n \in 1..Cardinality(idx) |->
            With(Nth(idx, n), LAMBDA i : DiagramInfo(metrics[i], scores[i], stories))])

\* The scores detect_diagram_frames computes, frame by frame.
DiagramScores(metrics, stories) ==
    [i \in 1..Len(metrics) |-> CalculateDiagramScore(metrics[i], stories)]

\* The frames whose score is above the threshold, without those at the threshold.
DetectDiagramFramesAboveThreshold(metrics, stories) ==
    DiagramEntries(metrics, stories, DiagramScores(metrics, stories),
                   (DiagramThreshold + 1)..100)

\* detect_diagram_frames(frame_metrics, stories_data)
DetectDiagramFrames(metrics, stories) ==
    DiagramEntries(metrics, stories, DiagramScores(metrics, stories), DiagramThreshold..100)

(***************************************************************************)
(* OverflowDetector: the analysis of the text frames of a document.  An    *)
(* element is [tag, attrib, texts]: attrib the attributes as <<name,       *)
(* value>> in their order, texts the text and tail of the element and of   *)
(* its descendants.  Lengths are in tenths of a unit, as in                *)
(* TextFrameMetrics; the estimated_overflow_risk of an analysed frame is   *)
(* the exact quotient [num, den].                                          *)
(***************************************************************************)
\* A result that is an exception.
Raised(result) == "raised" \in DOMAIN result

\* The exception float() and int() raise for a string that is no number.
ValueError == [raised |-> "ValueError"]

ZeroDivisionError == [raised |-> "ZeroDivisionError"]

\* The value of a string of digits.
DigitsValue(s) ==
    SumOf([i \in 1..Len(s) |->
              (CHOOSE v \in 0..9 : Char("0123456789", v + 1) = Char(s, i))
                  * (CASE Len(s) - i = 0 -> 1 [] Len(s) - i = 1 -> 10
                       [] Len(s) - i = 2 -> 100 [] OTHER -> 1000)])

IsDigits(s) == s # "" /\ Len(s) <= 4 /\ \A i \in 1..Len(s) : IsDigit(Char(s, i))

\* A token without its minus sign.
Unsigned(token) == IF token # "" /\ Char(token, 1) = "-" THEN Tail(token) ELSE token

\* int(token) does not raise: the token, without the whitespace around it, is digits
\* after an optional minus sign.
IsInt(token) == IsDigits(Unsigned(Strip(token)))

\* int(token)
ParseInt(token) ==
    IF Unsigned(Strip(token)) = Strip(token) THEN DigitsValue(Strip(token))
    ELSE -DigitsValue(Unsigned(Strip(token)))

\* The digits before the point of a token and the digit after it.
FloatParts(token) ==
    With(Unsigned(Strip(token)), LAMBDA body :
        IF Len(body) >= 3 /\ Char(body, Len(body) - 1) = "."
        THEN <<SubSeq(body, 1, Len(body) - 2), SubSeq(body, Len(body), Len(body))>>
        ELSE <<body, "0">>)

\* float(token) does not raise: the token is digits after an optional minus sign, with
\* or without a point and one more digit.  The tokens of the model that are not of
\* this form hold a letter, for which float() raises.
IsFloat(token) == IsDigits(FloatParts(token)[1]) /\ IsDigits(FloatParts(token)[2])

\* float(token), in tenths
ParseFloat(token) ==
    With(10 * DigitsValue(FloatParts(token)[1]) + DigitsValue(FloatParts(token)[2]),
         LAMBDA tenths :
        IF Unsigned(Strip(token)) = Strip(token) THEN tenths ELSE -tenths)

\* [float(x) for x in text.split()] does not raise
AreFloats(text) == \A n \in 1..Len(Split(text)) : IsFloat(Split(text)[n])

\* [float(x) for x in text.split()]
ParseFloats(text) == [n \in 1..Len(Split(text)) |-> ParseFloat(Split(text)[n])]

\* element.get(name, default)
Get(element, name, default) ==
    With({n \in 1..Len(element.attrib) : element.attrib[n][1] = name}, LAMBDA at :
        IF at = {} THEN default ELSE element.attrib[Minimum(at)][2])

\* _parse_inset_spacing(textframe_elem)
ParseInsetSpacing(element) ==
    With(Get(element, "TextFramePreferenceInsetSpacing", "0 0 0 0"), LAMBDA inset_str :
        IF ~AreFloats(inset_str) THEN <<0, 0, 0, 0>>
        ELSE With(ParseFloats(inset_str), LAMBDA inset_values :
                 IF Len(inset_values) >= 4 THEN SubSeq(inset_values, 1, 4)
                 ELSE IF Len(inset_values) = 1
                 THEN <<inset_values[1], inset_values[1], inset_values[1],
                        inset_values[1]>>
                 ELSE <<0, 0, 0, 0>>))

RECURSIVE FontProperties(_, _, _)
\* The loop of _estimate_font_properties over the attributes from number n on, which
\* the first value that is no number ends; found is <<font_size, leading>>.
FontProperties(attrib, n, found) ==
    IF n > Len(attrib) THEN found
    ELSE IF Contains(attrib[n][1], "FontSize") \/ Contains(attrib[n][1], "PointSize")
    THEN IF ~IsFloat(attrib[n][2]) THEN found
         ELSE FontProperties(attrib, n + 1, <<ParseFloat(attrib[n][2]), found[2]>>)
    ELSE IF Contains(attrib[n][1], "Leading") \/ Contains(attrib[n][1], "LineSpacing")
    THEN IF ~IsFloat(attrib[n][2]) THEN found
         ELSE FontProperties(attrib, n + 1, <<found[1], ParseFloat(attrib[n][2])>>)
    ELSE FontProperties(attrib, n + 1, found)

\* _estimate_font_properties(textframe_elem); font_size * 1.2 is a whole number of
\* tenths for the font sizes of the model.
EstimateFontProperties(element) ==
    With(FontProperties(element.attrib, 1, <<120, 144>>), LAMBDA found :
        IF found[2] <= found[1] THEN <<found[1], (found[1] * 12) \div 10>> ELSE found)

\* _count_frame_characters(textframe_elem)
CountFrameCharacters(element) ==
    SumOf([n \in 1..Len(element.texts) |-> Len(Strip(element.texts[n]))])

\* _calculate_initial_overflow_risk(width, height, char_count, font_size, column_count,
\* inset_spacing) for a font size that is not negative
CalculateInitialOverflowRisk(width, height, char_count, font_size, column_count, inset) ==
    IF font_size = 0 THEN ZeroDivisionError
    ELSE
    With2(IF column_count > 1
          THEN <<width - inset[4] - inset[2] - (column_count - 1) * 120, column_count>>
          ELSE <<width - inset[4] - inset[2], 1>>,
          height - inset[1] - inset[3], LAMBDA effective_width, effective_height :
    With(Max(1, TruncDiv(effective_width[1] * 10, effective_width[2] * font_size * 6))
            * Max(1, TruncDiv(effective_height * 10, font_size * 12)) * column_count,
         LAMBDA total_chars_capacity :
        IF total_chars_capacity <= 0 THEN Risk(1, 1)
        ELSE IF char_count > 2 * total_chars_capacity THEN Risk(2, 1)
        ELSE Risk(char_count, total_chars_capacity)))

\* width, height, x and y of _parse_textframe_element: of the transform, the defaults
\* if it has fewer than six values, ValueError if one of them is no number.
TransformGeometry(item_transform) ==
    IF ~AreFloats(item_transform) THEN ValueError
    ELSE With(ParseFloats(item_transform), LAMBDA transform_values :
            IF Len(transform_values) >= 6
            THEN [width |-> IF transform_values[1] < 0 THEN -transform_values[1]
                            ELSE transform_values[1],
                  height |-> IF transform_values[4] < 0 THEN -transform_values[4]
                             ELSE transform_values[4],
                  x |-> transform_values[5], y |-> transform_values[6]]
            ELSE [width |-> 2000, height |-> 1000, x |-> 0, y |-> 0])

\* _parse_textframe_element(textframe_elem, spread_path) for an element with the
\* attribute Self: the metrics, or the exception raised.
ParseTextframeElement(element, spread_path) ==
    With(TransformGeometry(Get(element, "ItemTransform", "1 0 0 1 0 0")), LAMBDA geometry :
        IF Raised(geometry) THEN geometry
        ELSE IF ~IsInt(Get(element, "TextColumnCount", "1")) THEN ValueError
        ELSE IF ~IsFloat(Get(element, "TextColumnGutter", "12")) THEN ValueError
        ELSE
        With3(ParseInsetSpacing(element), EstimateFontProperties(element),
              CountFrameCharacters(element), LAMBDA inset_spacing, font, char_count :
        With2(ParseInt(Get(element, "TextColumnCount", "1")),
              CalculateInitialOverflowRisk(
                  geometry.width, geometry.height, char_count, font[1],
                  ParseInt(Get(element, "TextColumnCount", "1")), inset_spacing),
              LAMBDA column_count, overflow_risk :
            IF Raised(overflow_risk) THEN overflow_risk
            ELSE [frame_id |-> Get(element, "Self", ""),
                  width |-> geometry.width, height |-> geometry.height,
                  x |-> geometry.x, y |-> geometry.y,
                  column_count |-> column_count,
                  column_gutter |-> ParseFloat(Get(element, "TextColumnGutter", "12")),
                  inset_spacing |-> inset_spacing,
                  font_size |-> font[1], leading |-> font[2], char_count |-> char_count,
                  estimated_overflow_risk |-> overflow_risk])))

\* metrics[frame_id] = frame_metrics on a mapping kept as the list of its values in
\* the order of insertion.
Put(mapping, metrics) ==
    IF \E n \in 1..Len(mapping) : mapping[n].frame_id = metrics.frame_id
    THEN [n \in 1..Len(mapping) |->
            IF mapping[n].frame_id = metrics.frame_id THEN metrics ELSE mapping[n]]
    ELSE Append(mapping, metrics)

RECURSIVE ExtractTextframeMetrics(_, _, _)
\* _extract_textframe_metrics(spread_root, spread_path), put into a mapping: the
\* elements of the spread from number n on.  An exception of the parse is logged and
\* the element left out.
ExtractTextframeMetrics(mapping, spread, n) ==
    IF n > Len(spread.root) THEN mapping
    ELSE With(IF spread.root[n].tag = "TextFrame"
              THEN ParseTextframeElement(spread.root[n], spread.filename)
              ELSE ValueError, LAMBDA parsed :
            ExtractTextframeMetrics(
                IF Raised(parsed) THEN mapping ELSE Put(mapping, parsed),
                spread, n + 1))

\* str.startswith and str.endswith
StartsWith(s, prefix) == Len(s) >= Len(prefix) /\ SubSeq(s, 1, Len(prefix)) = prefix

EndsWith(s, suffix) ==
    Len(s) >= Len(suffix) /\ SubSeq(s, Len(s) - Len(suffix) + 1, Len(s)) = suffix

\* _get_spread_files(idml_processor), as the files themselves
GetSpreadFiles(package) ==
    SelectSeq(package, LAMBDA file :
        StartsWith(file.filename, "Spreads/") /\ EndsWith(file.filename, ".xml"))

\* The package of a processor: none, or its files.
None == [loaded |-> FALSE]

Package(files) == [loaded |-> TRUE, files |-> files]

RECURSIVE AnalyzeSpreads(_, _, _)
\* The loop of analyze_document_frames over the spreads from number n on; a spread
\* whose content is no XML ends it.
AnalyzeSpreads(mapping, spreads, n) ==
    IF n > Len(spreads) \/ "root" \notin DOMAIN spreads[n] THEN mapping
    ELSE AnalyzeSpreads(ExtractTextframeMetrics(mapping, spreads[n], 1), spreads, n + 1)

\* analyze_document_frames(idml_processor)
AnalyzeDocumentFrames(package) ==
    IF package = None THEN <<>>
    ELSE AnalyzeSpreads(<<>>, GetSpreadFiles(package.files), 1)

(***************************************************************************)
(* Reports.  A value the source rounds with round(x, n) is the integer of  *)
(* its last kept decimal (tenths of a percent, thousandths of a risk or    *)
(* score), rounded from the exact quotient; a list comes without the       *)
(* pictograph each recommendation starts with.                             *)
(***************************************************************************)
\* The integer nearest to n / d for d > 0, the even one of two equally near.
RoundDiv(n, d) ==
    With2(n \div d, n % d, LAMBDA q, r :
        IF 2 * r < d THEN q
        ELSE IF 2 * r > d THEN q + 1
        ELSE IF q % 2 = 0 THEN q ELSE q + 1)

RECURSIVE Gcd(_, _)
Gcd(a, b) == IF b = 0 THEN a ELSE Gcd(b, a % b)

\* The sum of two risks, as a quotient in lowest terms.
RiskPlus(a, b) ==
    With2(a.num * b.den + b.num * a.den, a.den * b.den, LAMBDA n, d :
        [num |-> n \div Max(Gcd(n, d), 1), den |-> d \div Max(Gcd(n, d), 1)])

RECURSIVE SumRisks(_)
\* sum(p.overflow_risk for p in predictions)
SumRisks(preds) ==
    IF preds = <<>> THEN [num |-> 0, den |-> 1]
    ELSE RiskPlus(preds[1].overflow_risk, SumRisks(Tail(preds)))

\* f"{x:.1f}" of a value given in tenths
OneDecimal(tenths) == ToString(tenths \div 10) \o "." \o ToString(tenths % 10)

\* list[:n]
Take(list, n) == SubSeq(list, 1, Min(n, Len(list)))

\* text[:100] + '...' if len(text) > 100 else text
TextPreview(text) == IF Len(text) > 100 THEN Prefix(text, 100) \o "..." ELSE text

RiskBuckets == {"low", "medium", "high", "critical"}

\* _generate_global_recommendations(risk_counts, avg_risk); avg_risk is the quotient
\* sum / total.
GenerateGlobalRecommendations(risk_counts, sum, total) ==
    With(SumOf([n \in 1..4 |-> risk_counts[<<"low", "medium", "high", "critical">>[n]]]),
         LAMBDA count :
        (IF sum.num * 10 < 7 * sum.den * total
         THEN <<"Documento a basso rischio overflow - procedi con traduzione standard">>
         ELSE IF sum.num * 10 < 9 * sum.den * total
         THEN <<"Rischio moderato - usa modalit¬¦ traduzione compatta",
                "Monitora attentamente i testi pi¬π lunghi">>
         ELSE <<"Alto rischio overflow - necessaria strategia preventiva",
                "Usa traduzione ultra-concisa per tutti i testi",
                "Considera pre-processamento per ridurre lunghezza">>)
        \o (IF (risk_counts["high"] + risk_counts["critical"]) * 100 > 20 * Max(count, 1)
            THEN <<OneDecimal(RoundDiv((risk_counts["high"] + risk_counts["critical"])
                                           * 1000, Max(count, 1)))
                       \o "% dei testi ad alto rischio",
                   "Considera revisione manuale delle traduzioni problematiche">>
            ELSE <<>>)
        \o (IF risk_counts["critical"] > 0
            THEN <<ToString(risk_counts["critical"])
                       \o " testi a rischio critico - richiesta intervento manuale">>
            ELSE <<>>))

\* The report of generate_overflow_report for a list of predictions that is not empty.
OverflowReport(preds, language) ==
    With3(Len(preds),
          [b \in RiskBuckets |->
              Cardinality({n \in 1..Len(preds) : RiskBucket(preds[n].overflow_risk) = b})],
          SumRisks(preds),
          LAMBDA total_texts, risk_counts, sum :
    With2(SumOf([n \in 1..Len(preds) |-> Len(preds[n].original_text)]),
          SumOf([n \in 1..Len(preds) |-> preds[n].estimated_translated_length]),
          LAMBDA total_chars_original, total_chars_estimated :
        [summary |->
            [total_texts |-> total_texts,
             target_language |-> language,
             expansion_factor |-> ExpansionFactor(language),
             average_overflow_risk |-> RoundDiv(1000 * sum.num, sum.den * total_texts),
             total_original_chars |-> total_chars_original,
             total_estimated_chars |-> total_chars_estimated,
             estimated_expansion |->
                RoundDiv(1000 * (total_chars_estimated - Max(total_chars_original, 1)),
                         Max(total_chars_original, 1))],
         risk_distribution |-> risk_counts,
         risk_percentages |->
            [b \in RiskBuckets |-> RoundDiv(1000 * risk_counts[b], total_texts)],
         high_risk_texts |->
            With(Take(SelectSeq(preds,
                                LAMBDA p : RiskBucket(p.overflow_risk) = "critical"), 10),
                 LAMBDA high_risk_texts :
                [n \in 1..Len(high_risk_texts) |->
                    [text_preview |-> TextPreview(high_risk_texts[n].original_text),
                     overflow_risk |->
                        RoundDiv(1000 * high_risk_texts[n].overflow_risk.num,
                                 high_risk_texts[n].overflow_risk.den),
                     estimated_length |-> high_risk_texts[n].estimated_translated_length,
                     available_space |-> high_risk_texts[n].available_space_chars,
                     recommended_max |-> high_risk_texts[n].recommended_max_length,
                     suggestions |-> Take(high_risk_texts[n].suggestions, 3)]]),
         recommendations |-> GenerateGlobalRecommendations(risk_counts, sum, total_texts)]))

\* generate_overflow_report(predictions, target_language)
GenerateOverflowReport(preds, language) ==
    IF Len(preds) = 0 THEN [error |-> "Nessun testo da analizzare"]
    ELSE OverflowReport(preds, language)

\* resolution_method.split('+'): the parts of a method between the plus signs.
SplitMethods(method) ==
    With({0, Len(method) + 1} \cup {i \in 1..Len(method) : Char(method, i) = "+"},
         LAMBDA cuts :
        [n \in 1..(Cardinality(cuts) - 1) |->
            SubSeq(method, Nth(cuts, n) + 1, Nth(cuts, n + 1) - 1)])

RECURSIVE CountMethods(_, _)
\* method_usage, a list of <<method, count>> in the order of insertion, after the
\* methods of a list have been counted in.
CountMethods(usage, methods) ==
    IF methods = <<>> THEN usage
    ELSE CountMethods(
            IF \E n \in 1..Len(usage) : usage[n][1] = methods[1]
            THEN [n \in 1..Len(usage) |->
                    IF usage[n][1] = methods[1] THEN <<usage[n][1], usage[n][2] + 1>>
                    ELSE usage[n]]
            ELSE Append(usage, <<methods[1], 1>>),
            Tail(methods))

RECURSIVE MethodUsage(_)
\* method_usage of a list of resolutions
MethodUsage(resols) ==
    IF resols = <<>> THEN <<>>
    ELSE With(MethodUsage(SubSeq(resols, 1, Len(resols) - 1)), LAMBDA usage :
            IF resols[Len(resols)].resolution_method # "no_action_needed"
            THEN CountMethods(usage, SplitMethods(resols[Len(resols)].resolution_method))
            ELSE usage)

\* max(method_usage.items(), key=lambda x: x[1]): the first entry with the highest
\* count.
MostUsed(usage) ==
    usage[Minimum({n \in 1..Len(usage) : \A k \in 1..Len(usage) : usage[k][2] <= usage[n][2]})]

\* _generate_compression_recommendations(resolutions, method_usage)
GenerateCompressionRecommendations(resols, usage) ==
    With2(Cardinality({n \in 1..Len(resols) : resols[n].success}), Max(Len(resols), 1),
          LAMBDA successful, total :
        (IF successful * 10 > 9 * total
         THEN <<"Ottimo tasso di successo compressione">>
         ELSE IF successful * 10 > 7 * total
         THEN <<"Buon tasso di successo, migliorabile">>
         ELSE <<"Basso tasso di successo - rivedere strategie">>)
        \o (IF usage # <<>>
            THEN <<"Metodo più efficace: " \o MostUsed(usage)[1] \o " (usato "
                       \o ToString(MostUsed(usage)[2]) \o " volte)">>
            ELSE <<>>)
        \o (IF Len(resols) - successful > 0
            THEN <<ToString(Len(resols) - successful)
                       \o " testi richiedono intervento manuale",
                   "Considera regolazione font size o frame per casi critici">>
            ELSE <<>>))

\* The report of generate_compression_report with its two quotients over total.
CompressionReport(resols, total) ==
    With3(Len(resols), Cardinality({n \in 1..Len(resols) : resols[n].success}),
          SumOf([n \in 1..Len(resols) |-> resols[n].space_saved]),
          LAMBDA total_texts, successful_resolutions, total_space_saved :
    With2(MethodUsage(resols),
          SelectSeq(resols, LAMBDA r : ~r.success /\ r.resolution_method # "no_action_needed"),
          LAMBDA method_usage, failed_resolutions :
        IF total = 0 THEN [raised |-> "ZeroDivisionError"]
        ELSE
        [summary |->
            [total_texts |-> total_texts,
             successful_resolutions |-> successful_resolutions,
             success_rate |-> RoundDiv(1000 * successful_resolutions, total),
             total_space_saved |-> total_space_saved,
             average_space_saved |-> RoundDiv(10 * total_space_saved, total)],
         method_usage |-> method_usage,
         failed_resolutions |-> Len(failed_resolutions),
         failed_examples |->
            [n \in 1..Min(5, Len(failed_resolutions)) |->
                [original_length |-> Len(failed_resolutions[n].original_text),
                 final_length |-> Len(failed_resolutions[n].resolved_text),
                 text_preview |-> TextPreview(failed_resolutions[n].original_text),
                 notes |-> failed_resolutions[n].notes]],
         recommendations |-> GenerateCompressionRecommendations(resols, method_usage)]))

\* generate_compression_report dividing by total_texts itself.
GenerateCompressionReportUnguarded(resols) == CompressionReport(resols, Len(resols))

\* generate_compression_report(resolutions)
GenerateCompressionReport(resols) == CompressionReport(resols, Max(Len(resols), 1))

Priorities == {"critical", "high", "medium", "low"}

\* _generate_diagram_recommendations(diagram_frames, priority_counts)
GenerateDiagramRecommendations(frames, priority_counts) ==
    With(SumOf([n \in 1..4 |-> priority_counts[<<"critical", "high", "medium", "low">>[n]]]),
         LAMBDA total :
        (IF priority_counts["critical"] * 100 > 30 * Max(total, 1)
         THEN <<"Alto numero di diagrammi critici - richiede intervento manuale",
                "Considera pre-processing aggressivo per ridurre complessit¬¦">>
         ELSE IF priority_counts["critical"] * 100 > 10 * Max(total, 1)
         THEN <<"Alcuni diagrammi critici - monitora attentamente">>
         ELSE <<"Maggior parte dei diagrammi gestibili automaticamente">>)
        \o (IF 2 * (priority_counts["critical"] + priority_counts["high"]) > total
            THEN <<"Attiva modalit¬¦ --diagram-mode per ottimizzazioni specifiche">>
            ELSE <<>>)
        \o (IF total > 10
            THEN <<"Documento ricco di diagrammi - considera workflow specializzato">>
            ELSE <<>>))

\* The report of generate_diagram_detection_report for the entries of a mapping that is
\* not empty.
DiagramReport(frames) ==
    With3(Len(frames),
          [p \in Priorities |->
              Cardinality({n \in 1..Len(frames) : frames[n].compression_priority = p})],
          SumOf([n \in 1..Len(frames) |-> frames[n].diagram_score]),
          LAMBDA total_diagrams, priority_counts, sum :
    With(SelectSeq(frames, LAMBDA info : info.compression_priority = "critical"),
         LAMBDA critical_frames :
        [summary |->
            [total_diagrams |-> total_diagrams,
             average_diagram_score |-> RoundDiv(10 * sum, total_diagrams),
             priority_distribution |-> priority_counts,
             critical_frames_count |-> Len(critical_frames)],
         critical_frames |->
            [n \in 1..Min(5, Len(critical_frames)) |->
                [frame_id |-> critical_frames[n].frame_id,
                 diagram_score |-> critical_frames[n].diagram_score,
                 risk_factors |-> critical_frames[n].risk_factors,
                 recommended_strategies |->
                    Take(critical_frames[n].recommended_strategies, 3)]],
         recommendations |-> GenerateDiagramRecommendations(frames, priority_counts),
         next_steps |->
            <<"Applicare compressione ultra-aggressiva ai frame critici",
              "Verificare manualmente i diagrammi pi¬π complessi",
              "Considerare riduzione margini per frame ad alta densit¬¦",
              "Testare leggibilit¬¦ dopo compressione testo">>]))

\* generate_diagram_detection_report(diagram_frames)
GenerateDiagramDetectionReport(frames) ==
    IF frames = <<>>
    THEN [summary |-> [total_diagrams |-> 0, message |-> "Nessun frame diagramma rilevato"]]
    ELSE DiagramReport(frames)

(***************************************************************************)
(* Translator.  A response of the API is [has_content, content]; an API    *)
(* call that raises has the outcome ApiError.                              *)
(***************************************************************************)
\* self.rate_limit_delay, in seconds
RateLimitDelay == 1

\* self.max_retries
MaxRetries == 3

\* self.max_tokens_per_request
MaxTokensPerRequest == 3000

MissingTranslation == "[TRADUZIONE MANCANTE]"

\* The outcome of a call of chat.completions.create that raises.
ApiError == [error |-> "Exception", has_content |-> FALSE, content |-> ""]

Response(content) == [error |-> "", has_content |-> TRUE, content |-> content]

\* A response whose message.content is None.
ResponseWithoutContent == [error |-> "", has_content |-> FALSE, content |-> ""]

\* len(text) // 4 + 100
EstimatedTokens(text) == Len(text) \div 4 + 100

RECURSIVE CreateBatchesFrom(_, _, _, _, _)
\* The loop of _create_batches from text number k on, and what follows it.
CreateBatchesFrom(txts, k, done, current_batch, current_tokens) ==
    IF k > Len(txts)
    THEN IF current_batch # <<>> THEN Append(done, current_batch) ELSE done
    ELSE With(EstimatedTokens(txts[k]), LAMBDA estimated_tokens :
            IF current_tokens + estimated_tokens > MaxTokensPerRequest
                  /\ current_batch # <<>>
            THEN CreateBatchesFrom(txts, k + 1, Append(done, current_batch),
                                   <<txts[k]>>, estimated_tokens)
            ELSE CreateBatchesFrom(txts, k + 1, done, Append(current_batch, txts[k]),
                                   current_tokens + estimated_tokens))

\* _create_batches(texts)
CreateBatches(txts) == CreateBatchesFrom(txts, 1, <<>>, <<>>, 0)

\* str.split('\n')
SplitLines(text) ==
    With(text, LAMBDA s :
        With({i \in 1..Len(s) : Char(s, i) = "\n"}, LAMBDA breaks :
            [n \in 1..(Cardinality(breaks) + 1) |->
                SubSeq(s, IF n = 1 THEN 1 ELSE Nth(breaks, n - 1) + 1,
                          IF n = Cardinality(breaks) + 1 THEN Len(s)
                          ELSE Nth(breaks, n) - 1)]))

\* What re.match(r'^\d+[.)]\s*(.+)', line) leaves in group 1, stripped, for a stripped
\* line; "" if there is no match.
NumberedTranslation(line) ==
    With(RunEnd(line, 1, DigitChars), LAMBDA d :
        IF d > 1 /\ d <= Len(line) /\ Char(line, d) \in {".", ")"}
        THEN Strip(SubSeq(line, d + 1, Len(line)))
        ELSE "")

\* The translations of the numbered lines of a response, in order.
NumberedTranslations(response) ==
    With(SplitLines(Strip(response)), LAMBDA lines :
        SelectSeq([n \in 1..Len(lines) |-> NumberedTranslation(Strip(lines[n]))],
                  LAMBDA translation : translation # ""))

\* The translations as they are received, not adjusted to the expected number.
ParseTranslationResponseAsReceived(response, expected_count) ==
    NumberedTranslations(response)

\* _parse_translation_response(response, expected_count)
ParseTranslationResponse(response, expected_count) ==
    With(NumberedTranslations(response), LAMBDA received :
        IF Len(received) < expected_count
        THEN received \o [n \in 1..(expected_count - Len(received)) |-> MissingTranslation]
        ELSE SubSeq(received, 1, expected_count))

\* The exception the body of the try of _translate_batch raises for one outcome of the
\* API call: that of the call, or that of None.strip(); "" if it raises none.
AttemptError(outcome) ==
    IF outcome.error # "" THEN outcome.error
    ELSE IF ~outcome.has_content THEN "AttributeError"
    ELSE ""

\* What the body of the try returns if it raises nothing.
AttemptTranslations(outcome, batch) ==
    ParseTranslationResponse(outcome.content, Len(batch))

\* A wait that does not grow.
BackoffConstant(n) == 1

\* 2 ** attempt
Backoff(n) == 2 ^ n

(***************************************************************************)
(* TranslationMemory and CacheBackupManager.  The cache is the table       *)
(* translations of tm.db; a row keeps the columns the operations read or   *)
(* write, without the timestamps.  An optional argument that is None is    *)
(* the empty string.                                                       *)
(***************************************************************************)
\* hashlib.md5(s.encode()).hexdigest()[:8] for the context strings of the model
Md5Prefix(s) ==
    CASE s = "technical_manualde" -> "e60681ac"
      [] s = "technical_manualen" -> "508c56b2"
      [] s = "technical_manualfr" -> "b4d96fe2"
      [] s = "de" -> "5f02f088"
      [] s = "en" -> "9cfefed8"
      [] s = "fr" -> "82a9e4d2"

\* _compute_context_hash(context, document_type, target_lang)
ComputeContextHash(context, document_type, target_lang) ==
    Md5Prefix(context \o document_type \o target_lang)

\* No file tm.db.
NoDatabase == [exists |-> FALSE, rows |-> <<>>, last_id |-> 0]

\* CREATE TABLE IF NOT EXISTS, on connecting
InitDatabase(db) == [db EXCEPT !.exists = TRUE]

\* The row matches whatever its language and its context are.
IsExactMatchBySourceText(row, source_text, target_lang, context_hash) ==
    row.source_text = source_text

\* WHERE source_text = ? AND target_lang = ? AND context_hash = ?
IsExactMatch(row, source_text, target_lang, context_hash) ==
    /\ row.source_text = source_text
    /\ row.target_lang = target_lang
    /\ row.context_hash = context_hash

\* The indices of the rows of the key (source_text, target_lang, context_hash); the
\* key is UNIQUE, so there is at most one.
ExactMatches(rows, source_text, target_lang, context_hash) ==
    {n \in 1..Len(rows) : IsExactMatch(rows[n], source_text, target_lang, context_hash)}

\* add_translation(source_text, target_text, target_lang, source_lang, context,
\* document_type) on a connection to db: INSERT ... ON CONFLICT DO UPDATE.  The
\* attempt to insert takes the next id also when it ends in the update.
AddTranslationTo(db, source_text, target_text, target_lang, source_lang, context, document_type) ==
    With2(ComputeContextHash(context, document_type, target_lang), InitDatabase(db),
          LAMBDA context_hash, open :
        With(ExactMatches(open.rows, source_text, target_lang, context_hash),
             LAMBDA conflict :
            [exists |-> TRUE,
             rows |->
                IF conflict = {}
                THEN Append(open.rows,
                            [id |-> open.last_id + 1, source_text |-> source_text,
                             source_lang |-> source_lang, target_text |-> target_text,
                             target_lang |-> target_lang, context_hash |-> context_hash,
                             document_type |-> document_type, usage_count |-> 1])
                ELSE [n \in 1..Len(open.rows) |->
                        IF n \in conflict
                        THEN [open.rows[n] EXCEPT !.target_text = target_text,
                                                  !.usage_count = @ + 1]
                        ELSE open.rows[n]],
             last_id |-> open.last_id + 1]))

\* None: no row.
NoRow == [found |-> FALSE]

\* What get_exact_match returns on a connection to db: the row as it is read.
ExactMatch(db, source_text, target_lang, context, document_type) ==
    With(ExactMatches(db.rows, source_text, target_lang,
                      ComputeContextHash(context, document_type, target_lang)),
         LAMBDA found :
            IF found = {} THEN NoRow
            ELSE [found |-> TRUE, row |-> db.rows[Nth(found, 1)]])

\* The database after get_exact_match: the row read has been used once more.
AfterExactMatch(db, source_text, target_lang, context, document_type) ==
    With2(ExactMatches(db.rows, source_text, target_lang,
                       ComputeContextHash(context, document_type, target_lang)),
          InitDatabase(db),
          LAMBDA found, open :
            [open EXCEPT !.rows =
                [n \in 1..Len(open.rows) |->
                    IF found # {} /\ n = Nth(found, 1)
                    THEN [open.rows[n] EXCEPT !.usage_count = @ + 1]
                    ELSE open.rows[n]]])

\* datetime.now().strftime("%Y%m%d_%H%M%S") at second t of the model's minute
Stamp(t) == "20250101_12000" \o ToString(t)

\* The name of a backup made without a name.
DefaultBackupName(t) == "cache_backup_" \o Stamp(t)

\* The backup to restore, as the name of the backup of the cache it replaces.
PreRestoreNameTaken(t) == "stable"

\* The name of the backup restore_backup makes of the cache it replaces.
PreRestoreName(t) == "pre_restore_" \o Stamp(t)

\* The files of the backup directory with the file name.db holding db.
WithBackup(dir, name, db) ==
    [n \in DOMAIN dir \cup {name} |-> IF n = name THEN db ELSE dir[n]]

\* The backup directory after create_backup(name) on the cache db.
CreateBackupIn(dir, name, db) == IF db.exists THEN WithBackup(dir, name, db) ELSE dir

\* What create_backup(name) returns: the path of the backup, "" without a cache.
BackupPath(name, db) == IF db.exists THEN "backups/" \o name \o ".db" ELSE ""

(***************************************************************************)
(* AsyncTranslator.  A task of translate_texts_batch is the coroutine      *)
(* _create_translation_task of one text: it is created, holds a slot of    *)
(* the semaphore while its request is in flight, and is done with the      *)
(* value it returns.  The indices of the texts start at 1.                 *)
(***************************************************************************)
\* results = [None] * len(texts): a result that is None
ResultNone == [none |-> TRUE, text |-> ""]

\* A result that is a text.
ResultText(s) == [none |-> FALSE, text |-> s]

\* AsyncTranslator(api_key, model, max_concurrent, use_cache): the semaphore is
\* asyncio.Semaphore(max_concurrent), kept as the number of its free slots.
NewTranslator(max_concurrent, use_cache) ==
    [max_concurrent |-> max_concurrent, use_cache |-> use_cache,
     semaphore |-> max_concurrent, calls |-> 0, texts |-> <<>>, target_language |-> ""]

\* What _translate_single_async does with the outcome of its request: it returns
\* message.content.strip(), and raises what the request or the strip raises.
TranslateSingleAsync(outcome) ==
    IF outcome.error # "" \/ ~outcome.has_content
    THEN [raised |-> TRUE, value |-> ""]
    ELSE [raised |-> FALSE, value |-> Strip(outcome.content)]

\* The translation of the pair _create_translation_task returns.
TaskTranslation(text, single) == IF single.raised THEN text ELSE single.value

\* The block of the semaphore is left by the first return only.
SlotReleasedOnSuccess(single) == ~single.raised

\* async with self.semaphore: the slot is released when the block is left, by the
\* return of the try as by the return of the except.
SlotReleased(single) == TRUE

\* A task as asyncio.gather is given it.
CreateTranslationTask(index, text) ==
    [index |-> index, text |-> text, state |-> "created", raised |-> FALSE,
     translation |-> "", acquired |-> FALSE, released |-> FALSE]

RECURSIVE PrepareFrom(_, _, _, _, _, _)
\* The first loop of translate_texts_batch from text number i on: an exact match of
\* the cache is the result, any other text gets a task.
PrepareFrom(txts, i, use_cache, target_lang, db, prepared) ==
    IF i > Len(txts) THEN [prepared EXCEPT !.db = db]
    ELSE With(IF use_cache THEN ExactMatch(db, txts[i], target_lang, "", "")
              ELSE NoRow,
              LAMBDA cached :
            IF cached.found
            THEN PrepareFrom(txts, i + 1, use_cache, target_lang,
                             AfterExactMatch(db, txts[i], target_lang, "", ""),
                             [prepared EXCEPT
                                 !.results = [@ EXCEPT ![i] = ResultText(cached.row.target_text)]])
            ELSE PrepareFrom(txts, i + 1, use_cache, target_lang,
                             IF use_cache
                             THEN AfterExactMatch(db, txts[i], target_lang, "", "")
                             ELSE db,
                             [prepared EXCEPT
                                 !.translation_tasks =
                                     Append(@, CreateTranslationTask(i, txts[i]))]))

RECURSIVE StoreFrom(_, _, _, _, _, _)
\* The loop over completed_translations from pair number k on: a translation that is
\* not empty is the result of its text and, with the cache, a row of the cache.
StoreFrom(completed, k, txts, translator, db, stored) ==
    IF k > Len(completed) THEN [results |-> stored, db |-> db]
    ELSE With2(completed[k].index, completed[k].translation, LAMBDA idx, translation :
            IF translation # ""
            THEN StoreFrom(completed, k + 1, txts, translator,
                           IF translator.use_cache
                           THEN AddTranslationTo(db, txts[idx], translation,
                                                 translator.target_language, "", "", "")
                           ELSE db,
                           [stored EXCEPT ![idx] = ResultText(translation)])
            ELSE StoreFrom(completed, k + 1, txts, translator, db, stored))

\* The tasks whose request has been sent and has not been answered.
InFlight(ts) == {t \in 1..Len(ts) : ts[t].state = "in_flight"}

(***************************************************************************)
(* safe_cache_cleanup.  Here the cache has its three tables: translations  *)
(* (rows), terminology and consistency_rules.                              *)
(***************************************************************************)
\* The cache db with the rows of its other two tables.
CacheOf(db, terminology, consistency_rules) ==
    [exists |-> db.exists, rows |-> db.rows, last_id |-> db.last_id,
     terminology |-> terminology, consistency_rules |-> consistency_rules]

\* f"pre_cleanup_{datetime.now().strftime('%Y%m%d_%H%M%S')}"
PreCleanupName(t) == "pre_cleanup_" \o Stamp(t)

\* Any answer confirms.
ConfirmedAlways(response) == TRUE

\* response.lower() != 'y' cancels the cleanup.
Confirmed(response) == Lower(response) = "y"

\* DELETE FROM translations, committed; the ids given stay given (AUTOINCREMENT).
DeleteTranslations(db) == [db EXCEPT !.rows = <<>>]

\* What safe_cache_cleanup has not returned yet, what it returned, and its exception.
NotReturned == [returned |-> FALSE, raised |-> FALSE, value |-> FALSE]

Returned(value) == [returned |-> TRUE, raised |-> FALSE, value |-> value]

CleanupRaised == [returned |-> FALSE, raised |-> TRUE, value |-> FALSE]

(***************************************************************************)
(* Inputs of the model                                                     *)
(***************************************************************************)
RECURSIVE ListsUpTo(_, _)
\* The lists of at most n elements of S.
ListsUpTo(S, n) ==
    IF n = 0 THEN {<<>>}
    ELSE ListsUpTo(S, n - 1) \cup {Append(l, e) : l \in ListsUpTo(S, n - 1), e \in S}

\* Frame geometry, in tenths of a unit: degenerate, small and standard values.
Widths == {1, 300, 2000}

Heights == {1, 200, 1000}

Gutters == {0, 120, 4000}

Insets == {<<0, 0, 0, 0>>, <<60, 60, 60, 60>>, <<200, 200, 0, 0>>, <<0, 1500, 0, 1500>>}

\* <<font_size, leading>>
Fonts == {<<120, 144>>, <<60, 72>>, <<85, 102>>, <<120, 120>>}

GeometryFrames ==
    {TextFrameMetrics("u10", w, h, cc, g, inset, f[1], f[2], 0, 0) :
        w \in Widths, h \in Heights, cc \in 1..MaxColumns, g \in Gutters,
        inset \in Insets, f \in Fonts}

\* A frame of 30 x 20 units that holds the floor of 50 characters, the flowchart frame
\* of test_integrated_workflow.py and a frame of two columns.
SmallFrame == TextFrameMetrics("small", 300, 200, 1, 120, <<20, 20, 20, 20>>, 120, 144, 40, 80)

FlowchartFrame ==
    TextFrameMetrics("flowchart_main", 2500, 2000, 1, 120, <<20, 20, 20, 20>>, 85, 102,
                     320, 180)

TwoColumnFrame ==
    TextFrameMetrics("columns", 2400, 600, 2, 120, <<60, 60, 60, 60>>, 120, 144, 100, 70)

FrameMappings ==
    {<<>>, <<SmallFrame>>, <<TwoColumnFrame>>, <<FlowchartFrame, SmallFrame>>,
     <<SmallFrame, TwoColumnFrame>>}

Languages == {"de", "es", "it"}

PredictTexts ==
    {"Montage",
     "Dachhaken nach Anweisung des Herstellers montieren",
     "Absturzsicherungssystem am Dach fachgerecht montieren und prüfen"}

ResolveTexts ==
    {"Montage",
     "Absturzsicherungssystem am Dach sicher montieren",
     "Absturzsicherungssystem am Dach fachgerecht montieren",
     "Absturzsicherungssystem\tam Dach fachgerecht montieren",
     "in der Regel Absturzsicherungssystem montieren xx",
     "Bitte beachten Sie die Installation der Komponenten",
     "Es ist wichtig zu prüfen, dass auch 5 Prozent der Bauteile halten"}

\* Pieces of texts for the abbreviations: phrases of the dictionary that contain a
\* shorter term of it, entered before the phrase (komponenten, secondo, istruzioni) or
\* after it (komponenten of komponenten prüfen), a word of no entry and a space.
AbbreviationPieces ==
    {"beschädigte komponenten", "secondo le istruzioni", "komponenten prüfen", "secondo",
     "Die", " "}

AbbreviationTexts == {Join(l, "") : l \in ListsUpTo(AbbreviationPieces, MaxTokens)}

\* Translations for the overflow corrections: a word, a text that the corrections
\* shorten, two sentences and a measure.
CorrectionTexts == {"Ja", "Die Montage", "auch Ja. Nein", "5 bis 10 Millimeter"}

\* The languages of the corrections: the one they are written for and another one.
CorrectionLanguages == {"de", "it"}

ReductionLists == {<<10, 50>>, <<0, 20>>, <<100, 10>>, <<50>>}

RECURSIVE StringsUpTo(_, _)
\* The strings of at most n characters of alphabet.
StringsUpTo(alphabet, n) ==
    IF n = 0 THEN {""}
    ELSE StringsUpTo(alphabet, n - 1)
            \cup {t \o c : t \in StringsUpTo(alphabet, n - 1), c \in alphabet}

\* A letter, a space and a sentence end.
TruncationAlphabet == {"a", " ", "?"}

TruncationTexts == StringsUpTo(TruncationAlphabet, MaxTruncationLength)

\* Pieces of texts: words that trigger no strategy on their own, a phrase that triggers
\* all of them but remove_redundancy, and whitespace.
Tokens ==
    {"bitte", "beachten Sie", "au,ch", " ", "\n", "in der Regel 5 Prozent Installation auch"}

StrategyTexts == {Join(l, "") : l \in ListsUpTo(Tokens, MaxTokens)}

\* Frames for the diagram score: <<width, height, font_size, leading,
\* estimated_overflow_risk, char_count>> of aspect 1.25, 4 and 1.5, with a small and a
\* standard font, and of low, middle and high character density.
DiagramShapes ==
    {<<2500, 2000, 85, 102, 135, 320>>, <<2500, 2000, 120, 144, 80, 320>>,
     <<2400, 600, 120, 144, 80, 100>>,
     <<300, 200, 85, 102, 135, 40>>, <<300, 200, 120, 144, 80, 400>>,
     <<300, 200, 120, 144, 80, 700>>}

\* The frame mappings of at most MaxFrames frames; the frame at position n has the id
\* "u" followed by n.
DiagramMappings ==
    {[n \in 1..Len(l) |->
        TextFrameMetrics("u" \o ToString(n), l[n][1], l[n][2], 1, 120, <<20, 20, 20, 20>>,
                         l[n][3], l[n][4], l[n][6], l[n][5])] :
        l \in ListsUpTo(DiagramShapes, MaxFrames)}

StoriesData ==
    {<<>>,
     <<StoryWithoutRoot>>,
     <<Story(<<"Montage">>)>>,
     <<Story(<<"Start ¸Üí Ende", "">>)>>,
     <<Story(<<"Schritt 1", "Installation prüfen?">>)>>,
     <<Story(<<"Kontrolle OK?", "Ja -> Montage", "Nein -> Wartung">>), StoryWithoutRoot>>,
     <<Story(<<"Montage und Wartung", "Schritt", "1">>)>>}

\* The stories of a document of two frames, the story at position n being the one
\* that frame number n holds: stories with no diagram keyword, with one, and with a
\* keyword and flowchart patterns.
FrameStories ==
    {Story(<<"Hinweis">>), Story(<<"Montage">>), Story(<<"Schritt 1", "Installation prüfen?">>),
     Story(<<"Kontrolle OK?", "Ja -> Montage", "Nein -> Wartung">>)}

\* Texts that are diagram keywords, the second a flowchart decision as well.
AddedKeywords == {"ok", "Ja"}

\* A list with one more element before position p.
InsertAt(list, p, e) == SubSeq(list, 1, p - 1) \o <<e>> \o SubSeq(list, p, Len(list))

\* The stories with the text k as the last text of the last story.
AppendKeyword(stories, k) == Append(stories, Story(<<k>>))

\* The stories with one more keyword text, anywhere.
StoriesWithKeyword(stories) ==
    {AppendKeyword(stories, k) : k \in AddedKeywords}
    \cup UNION {{[stories EXCEPT ![s] = Story(InsertAt(stories[s].root, p, k))] :
                    p \in 1..(Len(stories[s].root) + 1), k \in AddedKeywords} :
                s \in {n \in 1..Len(stories) : "root" \in DOMAIN stories[n]}}

\* A TextFrame element with the attribute Self and further attributes.
TextFrame(id, attrib, element_texts) ==
    [tag |-> "TextFrame", attrib |-> <<<<"Self", id>>>> \o attrib, texts |-> element_texts]

\* The elements of the spreads: text frames without attributes, with a transform and
\* insets of four numbers, with a transform that holds a word, with a transform of
\* three numbers, with insets that are words, with two insets, with one inset, with
\* two columns and a font size, with a column count that is a word, with a font size
\* of zero, with a font size that is a word, with an empty transform, and a rectangle.
Elements ==
    {TextFrame("u1", <<>>, <<>>),
     TextFrame("u2", <<<<"ItemTransform", "200 0 0 100 10 20">>,
                       <<"TextFramePreferenceInsetSpacing", "6 6 6 6">>>>,
               <<"Montage  der Anlage ", "\n  ">>),
     TextFrame("u3", <<<<"ItemTransform", "abc 0 0 1 0 0">>>>, <<"Wartung">>),
     TextFrame("u4", <<<<"ItemTransform", "200 0 0">>>>, <<"Wartung">>),
     TextFrame("u5", <<<<"ItemTransform", "200 0 0 100 0 0">>,
                       <<"TextFramePreferenceInsetSpacing", "a b c d">>>>, <<"Wartung">>),
     TextFrame("u6", <<<<"ItemTransform", "200 0 0 100 0 0">>,
                       <<"TextFramePreferenceInsetSpacing", "6 6">>>>, <<>>),
     TextFrame("u7", <<<<"ItemTransform", "30 0 0 20 0 0">>,
                       <<"TextFramePreferenceInsetSpacing", "2.5">>>>,
               <<"Absturzsicherungssystem am Dach fachgerecht montieren und prüfen">>),
     TextFrame("u8", <<<<"ItemTransform", "-300.5 0 0 -200 5 -5 1">>,
                       <<"TextColumnCount", "2">>, <<"TextColumnGutter", "12">>,
                       <<"FontSize", "10">>, <<"AutoLeading", "11">>>>, <<"Dach", "">>),
     TextFrame("u9", <<<<"TextColumnCount", "two">>>>, <<>>),
     TextFrame("u10", <<<<"ItemTransform", "200 0 0 100 0 0">>, <<"PointSize", "0">>>>,
               <<>>),
     TextFrame("u11", <<<<"ItemTransform", "200 0 0 100 0 0">>, <<"Leading", "20">>,
                        <<"FontSize", "big">>, <<"LineSpacing", "30">>>>, <<>>),
     TextFrame("u12", <<<<"ItemTransform", "">>>>, <<>>),
     [tag |-> "Rectangle", attrib |-> <<<<"Self", "u13">>>>, texts |-> <<>>]}

\* The packages: no package, or the elements of a list as the elements of two spreads,
\* with a story between them or a spread whose content is no XML.
Packages ==
    {None}
    \cup UNION {{Package(<<[filename |-> "Spreads/Spread_1.xml",
                             root |-> SubSeq(l, 1, k)],
                            between,
                            [filename |-> "Spreads/Spread_2.xml",
                             root |-> SubSeq(l, k + 1, Len(l))]>>) :
                    k \in 0..Len(l),
                    between \in {[filename |-> "Stories/Story_u20.xml",
                                  root |-> <<TextFrame("u20", <<>>, <<>>)>>],
                                 [filename |-> "Spreads/Spread_0.xml"]}} :
                l \in ListsUpTo(Elements, MaxElements)}

RECURSIVE Doubled(_, _)
\* text + text, n times over
Doubled(text, n) == IF n = 0 THEN text ELSE Doubled(text \o text, n - 1)

\* A text of 7680 characters, estimated at 2020 tokens: two of them are over the 3000
\* tokens of a request.
LongText == Doubled("Montagehinweis ", 9)

TranslatorTexts == {"Hello", "World", LongText}

\* What the API answers: a response with numbered lines (too few, enough or too many
\* for the batches of the model, with or without other lines), an empty response, a
\* response without content, or an error.
ApiOutcomes ==
    {ApiError, ResponseWithoutContent}
        \cup {Response(content) :
                content \in {"", "1. Ciao", "1. Ciao\n2. Mondo\n3. Test\n4. Extra",
                             "Here are the translations:\n\n1) Ciao\n2.\n  3. Mondo  \nHope this helps!"}}

\* The texts, languages and contexts of the translation memory; the second context
\* has the text of the first one in two parts, context and document type.
MemorySourceTexts == {"INSTALLAZIONE", "MONTAGGIO"}

MemoryTargetTexts == {"INSTALLATION", "MONTAGE"}

MemoryLanguages == {"de", "en", "fr"}

MemoryContexts == {<<"technical_manual", "">>, <<"technical", "_manual">>, <<"", "">>}

\* The additions to the cache between a backup and its restoration.
CacheAdditions == {<<"CONTROLLO", "KONTROLLE", "de">>, <<"CONTROLLO", "CONTROL", "en">>}

BackupNames == {"stable", "daily"}

\* The reductions asked of the texts given to _resolve_single_overflow, in percent:
\* none, small ones, a half and the whole.
LoopReductions == {0, 5, 10, 20, 50, 100}

\* The texts given to the asynchronous translator, and what the API makes of them.
AsyncTexts == {"Hello", "World"}

ApiTranslation(text) == IF text = "Hello" THEN "Hallo" ELSE "Welt"

\* The outcomes of a request: a translation, a blank content, no content, an error.
AsyncOutcomes(text) ==
    {Response(ApiTranslation(text) \o " "), Response(" "), ResponseWithoutContent, ApiError}

\* The lists of texts of a call, the empty list among them.
AsyncTextLists == UNION {[1..n -> AsyncTexts] : n \in 0..MaxAsyncTexts}

\* The caches safe_cache_cleanup finds: none, an empty one, and caches with
\* translations, with and without terminology and consistency rules.
CleanupTranslations ==
    {InitDatabase(NoDatabase),
     AddTranslationTo(NoDatabase, "Hello", "Hallo", "de", "it", "", ""),
     AddTranslationTo(AddTranslationTo(NoDatabase, "Hello", "Hallo", "de", "it", "", ""),
                      "Hello", "Hello", "en", "it", "", "")}

CleanupTerminologies ==
    {<<>>, <<[id |-> 1, term |-> "tetto", language |-> "it", translation |-> "Dach",
              target_language |-> "de"]>>}

CleanupRules ==
    {<<>>, <<[id |-> 1, pattern |-> "pag.", replacement |-> "S.", language |-> "de",
              rule_type |-> "formatting", active |-> 1]>>}

CleanupCaches ==
    {NoDatabase}
        \cup {CacheOf(db, terminology, consistency_rules) :
                db \in CleanupTranslations, terminology \in CleanupTerminologies,
                consistency_rules \in CleanupRules}

\* What is typed at the prompt of the cleanup.
CleanupResponses == {"y", "Y", "n", "", "yes"}

\* How the copy of create_backup ends: the backup and its metadata are written, the
\* copy raises, or the copy is written and the writing of the metadata raises.
CopyOutcomes == {"copied", "copy_raised", "metadata_raised"}

(***************************************************************************)
(* Operations                                                              *)
(***************************************************************************)
OverflowIdle ==
    /\ target_language = ""
    /\ target_reductions = <<>>
    /\ predictions = <<>>
    /\ prev_predictions = <<>>
    /\ resolutions = <<>>
    /\ compressed_texts = <<>>
    /\ space = 0

TruncationIdle == max_length = 0 /\ truncated = ""

StrategyIdle == strategy_name = "" /\ applied = <<>>

DiagramIdle ==
    /\ stories_data = <<>>
    /\ diagram_scores = <<>>
    /\ diagram_frames = <<>>
    /\ prev_diagram_scores = <<>>
    /\ keywords_added = 0

ReportIdle == overflow_report = <<>> /\ compression_report = <<>> /\ diagram_report = <<>>

TranslatorIdle ==
    /\ batches = <<>>
    /\ batch_index = 0
    /\ attempt = 0
    /\ all_translations = <<>>
    /\ api_calls = <<>>
    /\ sleeps = <<>>
    /\ translations = <<>>

CacheIdle ==
    /\ tm_db = NoDatabase
    /\ backups = <<>>
    /\ now = 0
    /\ cache_log = <<>>

LoopIdle ==
    /\ single_prediction = <<>>
    /\ single_max_iterations = 0
    /\ passes = 0
    /\ strategy_index = 0
    /\ loop_state = <<>>
    /\ applications = <<>>
    /\ single_resolution = <<>>

LastIdle ==
    /\ max_lengths = <<>>
    /\ corrected_translations = <<>>
    /\ tasks = <<>>
    /\ async_translator = <<>>
    /\ results = <<>>
    /\ cleanup = <<>>

LaterIdle == TranslatorIdle /\ CacheIdle /\ LoopIdle /\ LastIdle

RestIdle == ReportIdle /\ idml_package = None /\ LaterIdle

\* Nothing has been given and nothing has run.
Idle ==
    /\ frame_metrics = <<>>
    /\ texts = <<>>
    /\ OverflowIdle
    /\ TruncationIdle
    /\ StrategyIdle
    /\ DiagramIdle
    /\ RestIdle
    /\ pc = "init"

\* _calculate_available_character_space(frame_metric)
CalculateSpace ==
    /\ pc = "init"
    /\ frame_metrics # <<>>
    /\ space' = CalculateAvailableCharacterSpace(frame_metrics[1])
    /\ pc' = "space"
    /\ UNCHANGED <<frame_metrics, texts, target_language, target_reductions, predictions,
                   prev_predictions, resolutions, compressed_texts, truncationVars,
                   strategyVars, diagramVars, restVars>>

\* predict_translation_overflow(txts, language, metrics)
Predict(txts, language, metrics) ==
    /\ texts' = txts
    /\ target_language' = language
    /\ frame_metrics' = metrics
    /\ predictions' = PredictTranslationOverflow(txts, language, metrics)
    /\ prev_predictions' = predictions
    /\ pc' = "predicted"
    /\ UNCHANGED <<target_reductions, resolutions, compressed_texts, space,
                   truncationVars, strategyVars, diagramVars, restVars>>

\* A prediction call on any input of the model, while at most one call with a result
\* came before it.
PredictAny ==
    /\ pc \in {"init", "predicted"}
    /\ strategy_name = ""
    /\ prev_predictions = <<>>
    /\ \E txts \in ListsUpTo(PredictTexts, MaxTexts), language \in Languages,
          metrics \in FrameMappings :
           Predict(txts, language, metrics)

\* The prediction call of the pipeline on the texts to resolve.
PredictForResolution ==
    /\ pc = "init"
    /\ texts = <<>>
    /\ \E txts \in ListsUpTo(ResolveTexts, MaxTexts), language \in {"de", "es"} :
        Predict(txts, language, <<SmallFrame>>)

\* resolve_overflow_predictions(predictions), as the pipeline calls it
Resolve ==
    /\ pc = "predicted"
    /\ resolutions' = ResolveOverflowPredictions(predictions, DefaultMaxIterations)
    /\ pc' = "resolved"
    /\ UNCHANGED <<frame_metrics, texts, target_language, target_reductions, predictions,
                   prev_predictions, compressed_texts, space, truncationVars,
                   strategyVars, diagramVars, restVars>>

\* apply_text_compression(txts, reductions)
ApplyTextCompression ==
    /\ pc = "init"
    /\ texts = <<>>
    /\ \E txts \in ListsUpTo(PredictTexts, MaxTexts), reductions \in ReductionLists :
        /\ texts' = txts
        /\ target_reductions' = reductions
        /\ IF MockRaises(txts, reductions)
           THEN /\ pc' = "raised"
                /\ UNCHANGED <<predictions, resolutions, compressed_texts>>
           ELSE /\ pc' = "compressed"
                /\ predictions' = MockPredictions(txts, reductions)
                /\ resolutions' =
                      [n \in 1..Len(predictions') |->
                          ResolveSingleOverflow(predictions'[n], DefaultMaxIterations)]
                /\ compressed_texts' = CompressedTexts(txts, reductions)
    /\ UNCHANGED <<frame_metrics, target_language, prev_predictions, space,
                   truncationVars, strategyVars, diagramVars, restVars>>

\* _intelligent_truncation(texts[0], max_length)
Truncate ==
    /\ pc = "init"
    /\ Len(texts) = 1
    /\ strategy_name = ""
    /\ truncated' = IntelligentTruncation(texts[1], max_length)
    /\ pc' = "truncated"
    /\ UNCHANGED <<frame_metrics, texts, overflowVars, max_length, strategyVars,
                   diagramVars, restVars>>

\* _apply_compression_strategy(text, strategy) on the last result, the first time on
\* the text given.
ApplyStrategy ==
    /\ pc \in {"init", "applied"}
    /\ Len(texts) = 1
    /\ strategy_name # ""
    /\ Len(applied) < MaxApplications
    /\ applied' =
          Append(applied,
                 ApplyCompressionStrategy(
                     IF applied = <<>> THEN texts[1] ELSE applied[Len(applied)],
                     strategy_name))
    /\ pc' = "applied"
    /\ UNCHANGED <<frame_metrics, texts, overflowVars, truncationVars, strategy_name,
                   diagramVars, restVars>>

\* detect_diagram_frames(metrics, stories)
DetectDiagrams ==
    /\ pc = "init"
    /\ texts = <<>>
    /\ \E metrics \in DiagramMappings, stories \in StoriesData :
        /\ frame_metrics' = metrics
        /\ stories_data' = stories
        /\ diagram_scores' = DiagramScores(metrics, stories)
        /\ diagram_frames' = DetectDiagramFrames(metrics, stories)
    /\ pc' = "detected"
    /\ UNCHANGED <<texts, overflowVars, truncationVars, strategyVars, prev_diagram_scores,
                   keywords_added, restVars>>

\* _calculate_diagram_score(metrics, stories_data) for every frame given.
CalculateScores ==
    /\ pc = "init"
    /\ frame_metrics # <<>>
    /\ texts = <<>>
    /\ diagram_scores' = DiagramScores(frame_metrics, stories_data)
    /\ pc' = "scored"
    /\ UNCHANGED <<frame_metrics, texts, overflowVars, truncationVars, strategyVars,
                   stories_data, diagram_frames, prev_diagram_scores, keywords_added,
                   restVars>>

\* _calculate_diagram_score(metrics, stories) once more, for the same frames and the
\* stories with one more text that is a diagram keyword: in a story that has a root,
\* before, between or after its texts, or in a further story.
CalculateScoresWithKeyword ==
    /\ pc = "scored"
    /\ keywords_added < MaxKeywordsAdded
    /\ \E stories \in StoriesWithKeyword(stories_data) :
        /\ stories_data' = stories
        /\ prev_diagram_scores' = diagram_scores
        /\ diagram_scores' = DiagramScores(frame_metrics, stories)
    /\ keywords_added' = keywords_added + 1
    /\ UNCHANGED <<frame_metrics, texts, overflowVars, truncationVars, strategyVars,
                   diagram_frames, pc, restVars>>

\* detect_diagram_frames's scores once more, for the same frames and the stories with
\* another text in the story of the last frame.
CalculateScoresWithOtherText ==
    /\ pc = "scored"
    /\ Len(frame_metrics) >= 2
    /\ Len(stories_data) = Len(frame_metrics)
    /\ keywords_added = 0
    /\ \E story \in FrameStories \ {stories_data[Len(stories_data)]} :
        /\ stories_data' = [stories_data EXCEPT ![Len(stories_data)] = story]
        /\ prev_diagram_scores' = diagram_scores
        /\ diagram_scores' = DiagramScores(frame_metrics, stories_data')
    /\ pc' = "scored_again"
    /\ UNCHANGED <<frame_metrics, texts, overflowVars, truncationVars, strategyVars,
                   diagram_frames, keywords_added, restVars>>

\* apply_overflow_corrections(translations, max_lengths, target_language), as main
\* calls it: with a max length for each translation, or with no max lengths.
CorrectOverflow ==
    /\ pc = "init"
    /\ texts = <<>>
    /\ \E translation_list \in ListsUpTo(CorrectionTexts, MaxCorrected) \ {<<>>},
          language \in CorrectionLanguages :
       \E limits \in {<<>>} \cup [1..Len(translation_list) -> 1..MaxCorrectionLength] :
        /\ texts' = translation_list
        /\ target_language' = language
        /\ max_lengths' = limits
        /\ corrected_translations' = ApplyOverflowCorrections(translation_list, limits, language)
    /\ pc' = "corrected"
    /\ UNCHANGED <<frame_metrics, target_reductions, predictions, prev_predictions,
                   resolutions, compressed_texts, space, truncationVars, strategyVars,
                   diagramVars, reportVars, idml_package, translatorVars, cacheVars,
                   loopVars, tasks, async_translator, results, cleanup>>

\* analyze_document_frames(idml_processor)
AnalyzeDocument ==
    /\ pc = "init"
    /\ texts = <<>>
    /\ frame_metrics' = AnalyzeDocumentFrames(idml_package)
    /\ pc' = "analyzed"
    /\ UNCHANGED <<texts, overflowVars, truncationVars, strategyVars, diagramVars,
                   restVars>>

\* generate_overflow_report(predictions, target_language), for the language of the
\* predictions if there is one
ReportOverflow ==
    /\ pc \in {"init", "predicted", "resolved", "reported"}
    /\ overflow_report = <<>>
    /\ \E language \in Languages :
        /\ target_language # "" => language = target_language
        /\ overflow_report' = GenerateOverflowReport(predictions, language)
    /\ pc' = IF Raised(overflow_report') THEN "raised" ELSE "reported"
    /\ UNCHANGED <<frame_metrics, texts, overflowVars, truncationVars, strategyVars,
                   diagramVars, compression_report, diagram_report, idml_package, laterVars>>

\* generate_compression_report(resolutions)
ReportCompression ==
    /\ pc \in {"init", "resolved", "reported"}
    /\ compression_report = <<>>
    /\ compression_report' = GenerateCompressionReport(resolutions)
    /\ pc' = IF Raised(compression_report') THEN "raised" ELSE "reported"
    /\ UNCHANGED <<frame_metrics, texts, overflowVars, truncationVars, strategyVars,
                   diagramVars, overflow_report, diagram_report, idml_package, laterVars>>

\* generate_diagram_detection_report(diagram_frames)
ReportDiagrams ==
    /\ pc \in {"init", "detected", "reported"}
    /\ diagram_report = <<>>
    /\ diagram_report' = GenerateDiagramDetectionReport(diagram_frames)
    /\ pc' = IF Raised(diagram_report') THEN "raised" ELSE "reported"
    /\ UNCHANGED <<frame_metrics, texts, overflowVars, truncationVars, strategyVars,
                   diagramVars, overflow_report, compression_report, idml_package, laterVars>>

\* translate_texts(texts, target_language) up to its first API call
TranslateTexts ==
    /\ pc = "init"
    /\ texts = <<>>
    /\ \E txts \in ListsUpTo(TranslatorTexts, MaxTranslated) :
        /\ texts' = txts
        /\ batches' = IF txts = <<>> THEN <<>> ELSE CreateBatches(txts)
        /\ pc' = IF txts = <<>> THEN "translated" ELSE "translating"
    /\ UNCHANGED <<frame_metrics, overflowVars, truncationVars, strategyVars, diagramVars,
                   reportVars, idml_package, batch_index, attempt, all_translations,
                   api_calls, sleeps, translations, cacheVars, loopVars, lastVars>>

\* _translate_batch(texts, target_language), called on its own, up to its first API call
TranslateBatch ==
    /\ pc = "init"
    /\ texts = <<>>
    /\ \E batch \in ListsUpTo(TranslatorTexts, MaxTranslated) \ {<<>>} :
        /\ texts' = batch
        /\ batches' = <<batch>>
    /\ pc' = "batch"
    /\ UNCHANGED <<frame_metrics, overflowVars, truncationVars, strategyVars, diagramVars,
                   reportVars, idml_package, batch_index, attempt, all_translations,
                   api_calls, sleeps, translations, cacheVars, loopVars, lastVars>>

\* One API call with its outcome, and what _translate_batch and translate_texts do with
\* it up to the next API call or to their end.
ApiCall ==
    /\ pc \in {"translating", "batch"}
    /\ \E outcome \in ApiOutcomes :
        LET batch == batches[batch_index + 1]
            failed == AttemptError(outcome) # ""
            calls == Append(api_calls, [batch |-> batch_index, attempt |-> attempt,
                                        outcome |-> outcome])
            collected ==
                all_translations
                    \o (IF failed THEN batch ELSE AttemptTranslations(outcome, batch))
        IN  /\ api_calls' = calls
            /\ IF failed /\ attempt < MaxRetries - 1
               THEN /\ sleeps' = Append(sleeps, [seconds |-> Backoff(attempt),
                                                 after |-> Len(calls),
                                                 by |-> "_translate_batch"])
                    /\ attempt' = attempt + 1
                    /\ UNCHANGED <<batch_index, all_translations, translations, pc>>
               ELSE IF pc = "batch"
               THEN /\ translations' = IF failed THEN [raised |-> AttemptError(outcome)]
                                       ELSE AttemptTranslations(outcome, batch)
                    /\ pc' = IF failed THEN "raised" ELSE "batch_returned"
                    /\ UNCHANGED <<batch_index, attempt, all_translations, sleeps>>
               ELSE /\ all_translations' = collected
                    /\ attempt' = 0
                    /\ IF batch_index < Len(batches) - 1
                       THEN /\ batch_index' = batch_index + 1
                            /\ sleeps' = IF failed THEN sleeps
                                         ELSE Append(sleeps, [seconds |-> RateLimitDelay,
                                                              after |-> Len(calls),
                                                              by |-> "translate_texts"])
                            /\ UNCHANGED <<translations, pc>>
                       ELSE /\ translations' = collected
                            /\ pc' = "translated"
                            /\ UNCHANGED <<batch_index, sleeps>>
    /\ UNCHANGED <<coreVars, batches, cacheVars, loopVars, lastVars>>

\* add_translation(source_text, target_text, target_lang, "it", context, document_type)
AddTranslation ==
    /\ pc \in {"init", "added", "matched"}
    /\ backups = <<>>
    /\ Len(cache_log) < MaxMemoryCalls
    /\ \E source_text \in MemorySourceTexts, target_text \in MemoryTargetTexts,
          target_lang \in MemoryLanguages, context \in MemoryContexts :
        /\ tm_db' = AddTranslationTo(tm_db, source_text, target_text, target_lang, "it",
                                     context[1], context[2])
        /\ cache_log' = Append(cache_log,
                               [op |-> "add_translation", source_text |-> source_text,
                                target_text |-> target_text, target_lang |-> target_lang,
                                context |-> context[1], document_type |-> context[2],
                                db |-> tm_db'])
    /\ pc' = "added"
    /\ UNCHANGED <<coreVars, translatorVars, backups, now, loopVars, lastVars>>

\* get_exact_match(source_text, target_lang, context, document_type)
GetExactMatch ==
    /\ pc \in {"init", "added", "matched"}
    /\ backups = <<>>
    /\ Len(cache_log) < MaxMemoryCalls
    /\ \E source_text \in MemorySourceTexts, target_lang \in MemoryLanguages,
          context \in MemoryContexts :
        /\ tm_db' = AfterExactMatch(tm_db, source_text, target_lang, context[1], context[2])
        /\ cache_log' = Append(cache_log,
                               [op |-> "get_exact_match", source_text |-> source_text,
                                target_lang |-> target_lang, context |-> context[1],
                                document_type |-> context[2],
                                result |-> ExactMatch(tm_db, source_text, target_lang,
                                                      context[1], context[2]),
                                db |-> tm_db'])
    /\ pc' = "matched"
    /\ UNCHANGED <<coreVars, translatorVars, backups, now, loopVars, lastVars>>

\* The positions of the operations of the backup manager and of the cache under it.
BackupPositions == {"init", "cache_added", "backed_up", "restored", "not_restored"}

\* An addition to the cache: add_translation(source, target, lang, "it",
\* "technical_manual") on a new connection to tm.db.
AddToCache ==
    /\ pc \in BackupPositions
    /\ Len(cache_log) < MaxCacheCalls
    /\ \E addition \in CacheAdditions :
        /\ tm_db' = AddTranslationTo(tm_db, addition[1], addition[2], addition[3], "it",
                                     "technical_manual", "")
        /\ cache_log' = Append(cache_log,
                               [op |-> "add_translation", source_text |-> addition[1],
                                target_text |-> addition[2], target_lang |-> addition[3],
                                context |-> "technical_manual", document_type |-> "",
                                db |-> tm_db'])
    /\ pc' = "cache_added"
    /\ UNCHANGED <<coreVars, translatorVars, backups, now, loopVars, lastVars>>

\* create_backup(backup_name), with a name or without
CreateBackup ==
    /\ pc \in BackupPositions
    /\ Len(cache_log) < MaxCacheCalls
    /\ \E backup_name \in BackupNames \cup {DefaultBackupName(now)} :
        /\ backups' = CreateBackupIn(backups, backup_name, tm_db)
        /\ cache_log' = Append(cache_log,
                               [op |-> "create_backup", name |-> backup_name,
                                result |-> BackupPath(backup_name, tm_db), db |-> tm_db])
    /\ pc' = "backed_up"
    /\ UNCHANGED <<coreVars, translatorVars, tm_db, now, loopVars, lastVars>>

\* restore_backup(backup_name, confirm): the answer is what the user types when asked;
\* copied is whether the copy of the backup over the cache succeeds, and recovered
\* whether the copy of the cache saved before it does, when it is tried.
RestoreBackup ==
    /\ pc \in BackupPositions
    /\ Len(cache_log) < MaxCacheCalls
    /\ \E backup_name \in BackupNames \cup DOMAIN backups, confirm \in BOOLEAN,
          answer \in {"y", "n"}, copied \in BOOLEAN, recovered \in BOOLEAN :
        LET found == backup_name \in DOMAIN backups
            saved == IF found /\ tm_db.exists
                     THEN CreateBackupIn(backups, PreRestoreName(now), tm_db)
                     ELSE backups
            confirmed == confirm \/ answer = "y"
            result == found /\ confirmed /\ copied
        IN  /\ confirm => answer = "y"
            /\ (~found \/ ~confirmed) => copied /\ recovered
            /\ copied => recovered
            /\ backups' = saved
            /\ tm_db' = IF ~found \/ ~confirmed THEN tm_db
                        ELSE IF copied THEN InitDatabase(saved[backup_name])
                        ELSE IF tm_db.exists /\ recovered THEN saved[PreRestoreName(now)]
                        ELSE NoDatabase
            /\ cache_log' = Append(cache_log,
                   [op |-> "restore_backup", name |-> backup_name, confirm |-> confirm,
                    result |-> result, replaced |-> tm_db,
                    pre_restore |-> IF found /\ tm_db.exists THEN PreRestoreName(now)
                                    ELSE "",
                    db |-> tm_db'])
            /\ pc' = IF result THEN "restored" ELSE "not_restored"
    /\ UNCHANGED <<coreVars, translatorVars, now, loopVars, lastVars>>

\* A second passes.
Tick ==
    /\ pc \in BackupPositions
    /\ now < MaxClock
    /\ now' = now + 1
    /\ UNCHANGED <<coreVars, translatorVars, tm_db, backups, cache_log, pc, loopVars, lastVars>>

\* _resolve_single_overflow(prediction, max_iterations) up to its outer loop
ResolveSingle ==
    /\ pc = "init"
    /\ texts = <<>>
    /\ \E text \in ResolveTexts, target_reduction \in LoopReductions,
          limit \in 0..MaxIterations :
        /\ single_prediction' = MockPrediction(text, target_reduction)
        /\ single_max_iterations' = limit
        /\ loop_state' = [current_text |-> text, methods_used |-> <<>>, total_saved |-> 0]
    /\ pc' = "for_iteration"
    /\ UNCHANGED <<coreVars, translatorVars, cacheVars, lastVars, passes, strategy_index,
                   applications, single_resolution>>

\* The outer loop takes its next iteration and the text is over the target: a pass
\* over the strategies starts.
StartPass ==
    /\ pc = "for_iteration"
    /\ MoreIterations(passes, single_max_iterations)
    /\ ~TargetMet(loop_state, single_prediction.recommended_max_length)
    /\ passes' = passes + 1
    /\ strategy_index' = 1
    /\ pc' = "for_strategy"
    /\ UNCHANGED <<coreVars, translatorVars, cacheVars, lastVars, single_prediction,
                   single_max_iterations, loop_state, applications, single_resolution>>

\* The body of the inner loop for the next strategy, with its break.
ApplyNextStrategy ==
    /\ pc = "for_strategy"
    /\ loop_state' = StrategyStep(loop_state, compression_strategies[strategy_index])
    /\ applications' =
          Append(applications,
                 [pass |-> passes, strategy |-> compression_strategies[strategy_index],
                  length_before |-> Len(loop_state.current_text),
                  length_after |-> Len(loop_state'.current_text)])
    /\ IF TargetMet(loop_state', single_prediction.recommended_max_length)
             \/ strategy_index = Len(compression_strategies)
       THEN pc' = "for_iteration" /\ strategy_index' = 0
       ELSE pc' = "for_strategy" /\ strategy_index' = strategy_index + 1
    /\ UNCHANGED <<coreVars, translatorVars, cacheVars, lastVars, single_prediction,
                   single_max_iterations, passes, single_resolution>>

\* The outer loop ends, by its break or by the end of its range, and the resolution is
\* returned.
ReturnResolution ==
    /\ pc = "for_iteration"
    /\ \/ ~MoreIterations(passes, single_max_iterations)
       \/ TargetMet(loop_state, single_prediction.recommended_max_length)
    /\ single_resolution' = ResolutionOf(single_prediction, loop_state)
    /\ pc' = "returned"
    /\ UNCHANGED <<coreVars, translatorVars, cacheVars, lastVars, single_prediction,
                   single_max_iterations, passes, strategy_index, loop_state,
                   applications>>

\* AsyncTranslator(...): the constructor, which opens the translation memory when the
\* cache is used.
ConstructAsyncTranslator ==
    /\ pc = "init"
    /\ LaterIdle
    /\ \E max_concurrent \in 1..MaxConcurrent, use_cache \in BOOLEAN :
        /\ async_translator' = NewTranslator(max_concurrent, use_cache)
        /\ tm_db' = IF use_cache THEN InitDatabase(tm_db) ELSE tm_db
    /\ pc' = "constructed"
    /\ UNCHANGED <<coreVars, translatorVars, backups, now, cache_log, loopVars,
                   max_lengths, corrected_translations, tasks, results, cleanup>>

\* translate_texts_batch(texts, target_language) up to its await of asyncio.gather, or
\* up to its return when there is no task to wait for.
TranslateTextsBatch ==
    /\ pc \in {"constructed", "returned_batch"}
    /\ async_translator.calls < MaxBatchCalls
    /\ \E txts \in AsyncTextLists, target_lang \in {"de"} :
        LET prepared ==
                PrepareFrom(txts, 1, async_translator.use_cache, target_lang, tm_db,
                            [results |-> [i \in 1..Len(txts) |-> ResultNone],
                             translation_tasks |-> <<>>, db |-> tm_db])
        IN  /\ async_translator' =
                   [async_translator EXCEPT !.calls = @ + 1, !.texts = txts,
                                            !.target_language = target_lang]
            /\ IF txts = <<>>
               THEN /\ results' = <<>>
                    /\ tasks' = <<>>
                    /\ tm_db' = tm_db
                    /\ pc' = "returned_batch"
               ELSE /\ results' = prepared.results
                    /\ tasks' = prepared.translation_tasks
                    /\ tm_db' = prepared.db
                    /\ pc' = IF prepared.translation_tasks = <<>>
                             THEN "returned_batch" ELSE "gathering"
    /\ UNCHANGED <<coreVars, translatorVars, backups, now, cache_log, loopVars,
                   max_lengths, corrected_translations, cleanup>>

\* A task enters the block of the semaphore, which has a free slot, and sends its
\* request.
StartRequest ==
    /\ pc = "gathering"
    /\ async_translator.semaphore > 0
    /\ \E t \in 1..Len(tasks) :
        /\ tasks[t].state = "created"
        /\ tasks' = [tasks EXCEPT ![t].state = "in_flight", ![t].acquired = TRUE]
    /\ async_translator' = [async_translator EXCEPT !.semaphore = @ - 1]
    /\ UNCHANGED <<coreVars, translatorVars, cacheVars, loopVars, max_lengths,
                   corrected_translations, results, cleanup, pc>>

\* The request of a task is answered, or fails; the task leaves the block of the
\* semaphore and is done.
FinishRequest ==
    /\ pc = "gathering"
    /\ \E t \in 1..Len(tasks) :
        /\ tasks[t].state = "in_flight"
        /\ \E outcome \in AsyncOutcomes(tasks[t].text) :
            LET single == TranslateSingleAsync(outcome)
            IN  /\ tasks' = [tasks EXCEPT
                                ![t].state = "done",
                                ![t].raised = single.raised,
                                ![t].translation = TaskTranslation(tasks[t].text, single),
                                ![t].released = SlotReleased(single)]
                /\ async_translator' =
                       [async_translator EXCEPT
                           !.semaphore = IF SlotReleased(single) THEN @ + 1 ELSE @]
    /\ UNCHANGED <<coreVars, translatorVars, cacheVars, loopVars, max_lengths,
                   corrected_translations, results, cleanup, pc>>

\* asyncio.gather returns the pairs of all the tasks, in the order of the tasks; the
\* results are filled in, the cache is updated and the results are returned.
GatherReturns ==
    /\ pc = "gathering"
    /\ \A t \in 1..Len(tasks) : tasks[t].state = "done"
    /\ LET stored == StoreFrom(tasks, 1, async_translator.texts, async_translator, tm_db,
                               results)
       IN  /\ results' = stored.results
           /\ tm_db' = stored.db
    /\ pc' = "returned_batch"
    /\ UNCHANGED <<coreVars, translatorVars, backups, now, cache_log, loopVars,
                   max_lengths, corrected_translations, tasks, async_translator, cleanup>>

\* The runs of safe_cache_cleanup so far.
CleanupRuns == IF cleanup = <<>> THEN 0 ELSE cleanup.runs

\* safe_cache_cleanup(create_backup, backup_name) up to its prompt, or up to its
\* return when it does not get that far.
SafeCacheCleanup ==
    /\ pc \in {"init", "cleanup_returned"}
    /\ texts = <<>>
    /\ CleanupRuns < MaxCleanups
    /\ \E create_backup \in BOOLEAN, name \in {"", "stable"}, copy \in CopyOutcomes :
        LET backup_name == IF name = "" THEN PreCleanupName(now) ELSE name
            backup_path == IF create_backup /\ copy = "copied"
                           THEN BackupPath(backup_name, tm_db) ELSE ""
            call == [create_backup |-> create_backup, backup_name |-> backup_name,
                     backup_path |-> backup_path, response |-> <<>>, before |-> tm_db,
                     result |-> NotReturned, runs |-> CleanupRuns + 1]
        IN  IF ~tm_db.exists \/ Len(tm_db.rows) = 0
            THEN /\ cleanup' = [call EXCEPT !.backup_path = "", !.result = Returned(TRUE)]
                 /\ backups' = backups
                 /\ pc' = "cleanup_returned"
            ELSE IF ~create_backup
            THEN /\ cleanup' = call
                 /\ backups' = backups
                 /\ pc' = "input"
            ELSE /\ backups' = IF copy = "copy_raised" THEN backups
                               ELSE CreateBackupIn(backups, backup_name, tm_db)
                 /\ cleanup' = [call EXCEPT
                                   !.result = IF copy # "copied" THEN CleanupRaised
                                              ELSE IF backup_path = ""
                                              THEN Returned(FALSE) ELSE NotReturned]
                 /\ pc' = IF copy = "copied" /\ backup_path # ""
                          THEN "input" ELSE "cleanup_returned"
    /\ UNCHANGED <<coreVars, translatorVars, tm_db, now, cache_log, loopVars, max_lengths,
                   corrected_translations, tasks, async_translator, results>>

\* The prompt is answered: safe_cache_cleanup deletes the translations when the
\* answer confirms, and returns.
AnswerCleanup ==
    /\ pc = "input"
    /\ \E response \in CleanupResponses, deleted \in BOOLEAN :
        /\ tm_db' = IF Confirmed(response) /\ deleted
                    THEN DeleteTranslations(tm_db) ELSE tm_db
        /\ cleanup' = [cleanup EXCEPT
                          !.response = <<response>>,
                          !.result = Returned(Confirmed(response) /\ deleted)]
    /\ pc' = "cleanup_returned"
    /\ UNCHANGED <<coreVars, translatorVars, backups, now, cache_log, loopVars,
                   max_lengths, corrected_translations, tasks, async_translator, results>>

(***************************************************************************)
(* Specifications                                                          *)
(***************************************************************************)
\* The capacity of one frame.
InitGeometry ==
    /\ frame_metrics \in {<<f>> : f \in GeometryFrames}
    /\ texts = <<>>
    /\ OverflowIdle
    /\ TruncationIdle
    /\ StrategyIdle
    /\ DiagramIdle
    /\ RestIdle
    /\ pc = "init"

NextGeometry == CalculateSpace

SpecGeometry == InitGeometry /\ [][NextGeometry]_vars

\* Prediction calls, one after the other.
NextPredict == PredictAny

SpecPredict == Idle /\ [][NextPredict]_vars

\* The pipeline: prediction, then resolution; or a compression to given targets.
NextResolve == PredictForResolution \/ Resolve \/ ApplyTextCompression

SpecResolve == Idle /\ [][NextResolve]_vars

\* The truncation of one text to one target length.
InitTruncate ==
    /\ frame_metrics = <<>>
    /\ texts \in {<<t>> : t \in TruncationTexts}
    /\ OverflowIdle
    /\ max_length \in 0..MaxTarget
    /\ truncated = ""
    /\ StrategyIdle
    /\ DiagramIdle
    /\ RestIdle
    /\ pc = "init"

NextTruncate == Truncate

SpecTruncate == InitTruncate /\ [][NextTruncate]_vars

\* One strategy applied again and again to one text.
InitStrategy ==
    /\ frame_metrics = <<>>
    /\ texts \in {<<t>> : t \in StrategyTexts}
    /\ OverflowIdle
    /\ TruncationIdle
    /\ strategy_name \in Range(compression_strategies)
    /\ applied = <<>>
    /\ DiagramIdle
    /\ RestIdle
    /\ pc = "init"

\* _apply_abbreviations applied again and again to one text.
InitAbbreviate ==
    /\ frame_metrics = <<>>
    /\ texts \in {<<t>> : t \in AbbreviationTexts}
    /\ OverflowIdle
    /\ TruncationIdle
    /\ strategy_name = "use_abbreviations"
    /\ applied = <<>>
    /\ DiagramIdle
    /\ RestIdle
    /\ pc = "init"

SpecAbbreviate == InitAbbreviate /\ [][ApplyStrategy]_vars

NextStrategy == ApplyStrategy

SpecStrategy == InitStrategy /\ [][NextStrategy]_vars

\* The detection of the diagram frames of one document.
NextDiagram == DetectDiagrams

SpecDiagram == Idle /\ [][NextDiagram]_vars

\* The score of one frame for given stories, and again with more keywords in the
\* stories.
InitKeywords ==
    /\ frame_metrics \in {m \in DiagramMappings : Len(m) = 1}
    /\ texts = <<>>
    /\ OverflowIdle
    /\ TruncationIdle
    /\ StrategyIdle
    /\ stories_data \in StoriesData
    /\ diagram_scores = <<>>
    /\ diagram_frames = <<>>
    /\ prev_diagram_scores = <<>>
    /\ keywords_added = 0
    /\ RestIdle
    /\ pc = "init"

NextKeywords == CalculateScores \/ CalculateScoresWithKeyword

SpecKeywords == InitKeywords /\ [][NextKeywords]_vars

\* The scores of two frames, each with a story of its own, and again with another
\* text in the story of the second frame.
InitFrameText ==
    /\ frame_metrics \in {m \in DiagramMappings : Len(m) = 2}
    /\ texts = <<>>
    /\ OverflowIdle
    /\ TruncationIdle
    /\ StrategyIdle
    /\ stories_data \in {<<first, second>> : first \in FrameStories, second \in FrameStories}
    /\ diagram_scores = <<>>
    /\ diagram_frames = <<>>
    /\ prev_diagram_scores = <<>>
    /\ keywords_added = 0
    /\ RestIdle
    /\ pc = "init"

NextFrameText == CalculateScores \/ CalculateScoresWithOtherText

SpecFrameText == InitFrameText /\ [][NextFrameText]_vars

\* The analysis of the frames of one package.
InitAnalysis ==
    /\ frame_metrics = <<>>
    /\ texts = <<>>
    /\ OverflowIdle
    /\ TruncationIdle
    /\ StrategyIdle
    /\ DiagramIdle
    /\ ReportIdle
    /\ idml_package \in Packages
    /\ LaterIdle
    /\ pc = "init"

NextAnalysis == AnalyzeDocument

SpecAnalysis == InitAnalysis /\ [][NextAnalysis]_vars

\* The reports on what prediction, resolution and detection returned, or on nothing.
NextReport ==
    PredictForResolution \/ Resolve \/ DetectDiagrams
        \/ ReportOverflow \/ ReportCompression \/ ReportDiagrams

SpecReport == Idle /\ [][NextReport]_vars

\* A translation of a list of texts, or of one batch, call by call.
NextTranslate == TranslateTexts \/ TranslateBatch \/ ApiCall

SpecTranslate == Idle /\ [][NextTranslate]_vars

\* Additions to the translation memory and exact matches, in any order.
NextMemory == AddTranslation \/ GetExactMatch

SpecMemory == Idle /\ [][NextMemory]_vars

\* Additions to the cache, backups and restorations, in any order, as the seconds pass.
NextBackup == AddToCache \/ CreateBackup \/ RestoreBackup \/ Tick

SpecBackup == Idle /\ [][NextBackup]_vars

\* _resolve_single_overflow, strategy by strategy.
NextResolveSingle == ResolveSingle \/ StartPass \/ ApplyNextStrategy \/ ReturnResolution

SpecResolveSingle == Idle /\ [][NextResolveSingle]_vars

\* The same, with the steps of the function taken as long as there is one to take.
SpecResolveSingleFair == SpecResolveSingle /\ WF_vars(NextResolveSingle)

\* The overflow corrections of the post-processor.
NextCorrections == CorrectOverflow

SpecCorrections == Idle /\ [][NextCorrections]_vars

\* The calls of translate_texts_batch of one AsyncTranslator, one after the other, the
\* tasks of a call in any interleaving.
NextAsync ==
    ConstructAsyncTranslator \/ TranslateTextsBatch \/ StartRequest \/ FinishRequest
        \/ GatherReturns

SpecAsync == Idle /\ [][NextAsync]_vars

\* The same, where the event loop runs a task that can run and a request that was
\* sent comes to an end.
SpecAsyncFair == SpecAsync /\ WF_vars(StartRequest \/ FinishRequest \/ GatherReturns)

\* A cache is there, or none, and nothing has run.
InitCleanup ==
    /\ frame_metrics = <<>>
    /\ texts = <<>>
    /\ OverflowIdle
    /\ TruncationIdle
    /\ StrategyIdle
    /\ DiagramIdle
    /\ ReportIdle
    /\ idml_package = None
    /\ TranslatorIdle
    /\ tm_db \in CleanupCaches
    /\ backups = <<>>
    /\ now = 0
    /\ cache_log = <<>>
    /\ LoopIdle
    /\ LastIdle
    /\ pc = "init"

\* The runs of safe_cache_cleanup, one after the other.
NextCleanup == SafeCacheCleanup \/ AnswerCleanup

SpecCleanup == InitCleanup /\ [][NextCleanup]_vars

Init ==
    Idle \/ InitGeometry \/ InitTruncate \/ InitStrategy \/ InitAbbreviate \/ InitKeywords
        \/ InitFrameText \/ InitAnalysis \/ InitCleanup

Next ==
    NextGeometry \/ NextPredict \/ NextResolve \/ NextTruncate \/ NextStrategy
        \/ NextDiagram \/ NextKeywords \/ NextReport \/ NextAnalysis \/ NextTranslate
        \/ NextMemory \/ NextBackup \/ NextResolveSingle \/ NextFrameText
        \/ NextCorrections \/ NextAsync \/ NextCleanup

Spec == Init /\ [][Next]_vars

(***************************************************************************)
(* Properties                                                              *)
(***************************************************************************)
\* C1: the capacity computed for a frame of positive width, height, font size and
\* leading is at least 50 characters, also when its effective width or height is zero
\* or negative.
CapacityAtLeastFifty == pc = "space" => space >= 50

\* A frame whose insets exceed its width has been measured.
CapacityOfDegenerateFrame ==
    /\ pc = "space"
    /\ frame_metrics[1].width - frame_metrics[1].inset_spacing[4]
          - frame_metrics[1].inset_spacing[2] <= 0
    /\ space = 50

\* C2: predict_translation_overflow returns one prediction per text, in the order of
\* the texts, for any frame mapping; no text, no prediction.
OnePredictionPerText ==
    pc = "predicted" =>
        /\ Len(predictions) = Len(texts)
        /\ \A i \in 1..Len(texts) : predictions[i].original_text = texts[i]

\* Two different texts have been predicted without frame metrics.
TwoTextsPredicted ==
    /\ pc = "predicted"
    /\ frame_metrics = <<>>
    /\ Len(texts) = 2
    /\ texts[1] # texts[2]
    /\ Len(predictions) = 2

\* C3 as stated: a resolution is a success exactly when its resolved text is no longer
\* than the recommended maximum of its prediction, the pass-through included.
SuccessIffWithinRecommended ==
    pc = "resolved" =>
        \A i \in 1..Len(resolutions) :
            resolutions[i].success
                <=> Len(resolutions[i].resolved_text) <= predictions[i].recommended_max_length

\* C3: a resolution is a success exactly when its prediction had an overflow risk of
\* at most 1.0 or its resolved text is no longer than the recommended maximum.
SuccessIffNoOverflowOrWithinRecommended ==
    pc = "resolved" =>
        /\ Len(resolutions) = Len(predictions)
        /\ \A i \in 1..Len(resolutions) :
              resolutions[i].success
                <=> \/ RiskAtMostOne(predictions[i].overflow_risk)
                    \/ Len(resolutions[i].resolved_text)
                          <= predictions[i].recommended_max_length

\* A text longer than the recommended maximum has been passed through as a success.
PassedThroughOverRecommended ==
    /\ pc = "resolved"
    /\ \E i \in 1..Len(resolutions) :
          /\ RiskAtMostOne(predictions[i].overflow_risk)
          /\ resolutions[i].resolution_method = "no_action_needed"
          /\ resolutions[i].success
          /\ Len(resolutions[i].resolved_text) > predictions[i].recommended_max_length

\* floor(available_space_chars * 0.9)
NinetyPercent(prediction) == (prediction.available_space_chars * 9) \div 10

\* C5 as stated: every prediction the program builds recommends floor(0.9 * available).
EveryRecommendationIsNinetyPercent ==
    \A p \in Range(predictions) : p.recommended_max_length = NinetyPercent(p)

\* C5: the predictions of predict_translation_overflow recommend floor(0.9 * available);
\* the mock predictions of apply_text_compression recommend all of the available space,
\* which is the target length.
RecommendationByOrigin ==
    /\ pc \in {"predicted", "resolved"} =>
          \A p \in Range(predictions) : p.recommended_max_length = NinetyPercent(p)
    /\ pc = "compressed" =>
          \A p \in Range(predictions) :
              /\ p.frame_id = "mock_frame"
              /\ p.recommended_max_length = p.available_space_chars

\* A mock prediction whose recommendation is above 90% of its space, next to which the
\* pipeline has states with real predictions.
MockRecommendsWholeSpace ==
    /\ pc = "compressed"
    /\ \E p \in Range(predictions) :
          /\ p.recommended_max_length = p.available_space_chars
          /\ p.recommended_max_length > NinetyPercent(p)

\* C6: an overflow risk is never negative; at equal capacity it does not decrease when
\* the estimated length increases; at equal estimated length it does not increase when
\* the capacity increases.
RiskMonotone ==
    \A p \in Range(predictions) \cup Range(prev_predictions) :
        /\ p.overflow_risk.num >= 0
        /\ p.overflow_risk.den > 0
        /\ \A q \in Range(predictions) \cup Range(prev_predictions) :
              /\ (/\ p.available_space_chars = q.available_space_chars
                  /\ p.estimated_translated_length <= q.estimated_translated_length)
                    => RiskLeq(p.overflow_risk, q.overflow_risk)
              /\ (/\ p.estimated_translated_length = q.estimated_translated_length
                  /\ p.available_space_chars <= q.available_space_chars)
                    => RiskLeq(q.overflow_risk, p.overflow_risk)

\* Two calls gave the same estimated length against different capacities, and one call
\* gave different estimated lengths against the same capacity.
RisksCompared ==
    /\ \E p \in Range(prev_predictions), q \in Range(predictions) :
          /\ p.estimated_translated_length = q.estimated_translated_length
          /\ p.available_space_chars < q.available_space_chars
          /\ ~RiskLeq(p.overflow_risk, q.overflow_risk)
    /\ \E p, q \in Range(predictions) :
          /\ p.available_space_chars = q.available_space_chars
          /\ p.estimated_translated_length < q.estimated_translated_length
          /\ ~RiskLeq(q.overflow_risk, p.overflow_risk)

\* final_length/target_length of the notes
ShortfallNotes(resolution, prediction) ==
    "Lunghezza finale: " \o ToString(Len(resolution.resolved_text)) \o "/"
        \o ToString(prediction.recommended_max_length) \o ". "
        \o "Nessuna compressione applicata"

\* C7: when no strategy shortened a text that is longer than its target, the resolution
\* returns the original text, with space_saved 0, method 'no_compression', no success,
\* and notes giving the final length against the target.
UncompressedKeepsOriginal ==
    pc = "resolved" =>
        \A i \in 1..Len(resolutions) :
            (/\ ~RiskAtMostOne(predictions[i].overflow_risk)
             /\ Len(predictions[i].original_text) > predictions[i].recommended_max_length
             /\ resolutions[i].resolution_method = "no_compression")
                => /\ resolutions[i].resolved_text = predictions[i].original_text
                   /\ resolutions[i].space_saved = 0
                   /\ ~resolutions[i].success
                   /\ resolutions[i].notes = ShortfallNotes(resolutions[i], predictions[i])

\* C4: for a target length of at least 4 the result of the truncation is no longer
\* than the target, whichever branch produced it.
TruncationWithinTarget ==
    (pc = "truncated" /\ max_length >= 4) => Len(truncated) <= max_length

\* A text longer than its target in which no word fits has been cut hard.
TruncatedByHardCut ==
    /\ pc = "truncated"
    /\ max_length >= 4
    /\ Len(texts[1]) > max_length
    /\ truncated = SubSeq(texts[1], 1, max_length - 3) \o "..."
    /\ Len(truncated) = max_length

\* A trigger pattern of the strategy matches in the text: the condition under which
\* the strategy substitutes or drops something.
HasTrigger(name, text) ==
    CASE name = "remove_redundancy" ->
            \E n \in 1..Len(redundancy_patterns) :
                ReSearch(redundancy_patterns[n][1], TRUE, text)
      [] name = "use_abbreviations" ->
            With(BoundedSubstrings(text), LAMBDA terms :
                \E n \in 1..Len(german_abbreviations) :
                    german_abbreviations[n][1] \in terms)
      [] name = "simplify_language" ->
            \E n \in 1..Len(simplifications) : ReSearch(simplifications[n][1], TRUE, text)
      [] name = "remove_optional_words" ->
            With(Split(text), LAMBDA words :
                \E n \in 1..Len(words) : CleanWord(words[n]) \in optional_words)
      [] name = "compact_numbers" ->
            \E n \in 1..Len(compactions) : ReSearch(compactions[n][1], FALSE, text)

\* C9: on a text in which no trigger pattern of the strategy matches, the second
\* application of the strategy returns what the first one returned.
IdempotentWithoutTrigger ==
    (Len(applied) >= 2 /\ ~HasTrigger(strategy_name, texts[1])) => applied[2] = applied[1]

\* The text contains no term of the abbreviation dictionary and no word of the optional
\* stoplist, in whatever case and position, and no redundancy pattern matches in it.
ContainsNoTerm(text) ==
    /\ With(Lower(text), LAMBDA low :
          /\ \A n \in 1..Len(german_abbreviations) :
                ~Contains(low, german_abbreviations[n][1])
          /\ \A w \in optional_words : ~Contains(low, w))
    /\ ~HasTrigger("remove_redundancy", text)

\* C10 as stated: on a text without abbreviation term, optional word and redundancy
\* pattern, remove_redundancy, use_abbreviations and remove_optional_words return the
\* text character for character.
UnchangedWithoutTerm ==
    (/\ applied # <<>>
     /\ strategy_name \in {"remove_redundancy", "use_abbreviations", "remove_optional_words"}
     /\ ContainsNoTerm(texts[1]))
        => applied[1] = texts[1]

\* The text with every run of whitespace replaced by one space, and none at its ends.
SingleSpaced(text) == Join(Split(text), " ")

\* C10: on a text in which no abbreviation term stands between word boundaries, no
\* word cleaned of its punctuation is in the optional stoplist and no redundancy
\* pattern matches, use_abbreviations returns the text character for character;
\* remove_redundancy and remove_optional_words return it single-spaced, that is
\* unchanged exactly when its whitespace is single spaces between the words.
SingleSpacedWithoutTrigger ==
    (/\ applied # <<>>
     /\ ~HasTrigger("remove_redundancy", texts[1])
     /\ ~HasTrigger("use_abbreviations", texts[1])
     /\ ~HasTrigger("remove_optional_words", texts[1]))
        => /\ strategy_name = "use_abbreviations" => applied[1] = texts[1]
           /\ strategy_name \in {"remove_redundancy", "remove_optional_words"}
                => applied[1] = SingleSpaced(texts[1])

\* remove_optional_words has changed the whitespace of a text without any trigger.
WhitespaceChangedWithoutTrigger ==
    /\ applied # <<>>
    /\ strategy_name = "remove_optional_words"
    /\ ~HasTrigger("remove_redundancy", texts[1])
    /\ ~HasTrigger("use_abbreviations", texts[1])
    /\ ~HasTrigger("remove_optional_words", texts[1])
    /\ applied[1] # texts[1]
    /\ applied[1] = SingleSpaced(texts[1])

\* C8: detect_diagram_frames returns an entry for exactly the frames of frame_metrics
\* whose computed diagram score is at least 0.6, each with the score computed for it,
\* and every score it computes lies between 0 and 1.
DiagramFramesAtThreshold ==
    pc = "detected" =>
        /\ Len(diagram_scores) = Len(frame_metrics)
        /\ \A i \in 1..Len(diagram_scores) : diagram_scores[i] \in 0..100
        /\ {diagram_frames[n].frame_id : n \in 1..Len(diagram_frames)}
              = {frame_metrics[i].frame_id :
                    i \in {j \in 1..Len(frame_metrics) : diagram_scores[j] >= 60}}
        /\ \A n \in 1..Len(diagram_frames) :
              \E i \in 1..Len(frame_metrics) :
                  /\ frame_metrics[i].frame_id = diagram_frames[n].frame_id
                  /\ diagram_frames[n].diagram_score = diagram_scores[i]
                  /\ diagram_frames[n].frame_metrics = frame_metrics[i]
        /\ \A n, k \in 1..Len(diagram_frames) :
              diagram_frames[n].frame_id = diagram_frames[k].frame_id => n = k

\* Of two frames, the one that scores exactly 0.6 has been returned and the one that
\* scores less has not.
DetectedFrameAtThreshold ==
    /\ pc = "detected"
    /\ Len(frame_metrics) = 2
    /\ Len(diagram_frames) = 1
    /\ diagram_frames[1].frame_id = "u2"
    /\ diagram_scores[1] < 60
    /\ diagram_scores[2] = 60

\* C11, as claimed: for the same frame, the score computed after a diagram keyword
\* has been added to the stories, wherever it was added, is not lower than the score
\* computed before.
ScoreMonotoneInAddedKeywords ==
    (pc = "scored" /\ keywords_added > 0) =>
        \A i \in 1..Len(diagram_scores) : diagram_scores[i] >= prev_diagram_scores[i]

\* The text of the second stories is the text of the first followed by a keyword.
KeywordAppended(before, after) ==
    \E k \in AddedKeywords :
        ExtractFrameText("", after) = ExtractFrameText("", before) \o k \o " "

\* C11: for the same frame, the score computed after a diagram keyword has been added
\* behind the text of the stories is not lower than the score computed before.
ScoreMonotoneInAppendedKeywords ==
    [][(keywords_added' > keywords_added /\ KeywordAppended(stories_data, stories_data'))
          => /\ Len(diagram_scores') = Len(diagram_scores)
             /\ \A i \in 1..Len(diagram_scores) : diagram_scores'[i] >= diagram_scores[i]]_vars

\* A keyword has been added as a further story behind stories with text, and the score
\* of the frame has become higher.
ScoreRaisedByAppendedKeyword ==
    /\ pc = "scored"
    /\ keywords_added > 0
    /\ Len(stories_data) >= 2
    /\ \E k \in AddedKeywords : stories_data[Len(stories_data)] = Story(<<k>>)
    /\ ExtractFrameText("", SubSeq(stories_data, 1, Len(stories_data) - 1)) # ""
    /\ \E i \in 1..Len(diagram_scores) : diagram_scores[i] > prev_diagram_scores[i]

\* C12: no report raises; generate_overflow_report on an empty list of predictions
\* returns the error 'Nessun testo da analizzare' and nothing else,
\* generate_compression_report on an empty list of resolutions returns a summary whose
\* counts and rates are all zero, and generate_diagram_detection_report on an empty
\* mapping returns a summary with total_diagrams 0.
ReportsOfNothing ==
    /\ pc # "raised"
    /\ (overflow_report # <<>> /\ predictions = <<>>)
          => overflow_report = [error |-> "Nessun testo da analizzare"]
    /\ (compression_report # <<>> /\ resolutions = <<>>)
          => /\ compression_report.summary =
                  [total_texts |-> 0, successful_resolutions |-> 0, success_rate |-> 0,
                   total_space_saved |-> 0, average_space_saved |-> 0]
             /\ compression_report.failed_resolutions = 0
             /\ compression_report.method_usage = <<>>
    /\ (diagram_report # <<>> /\ diagram_frames = <<>>)
          => diagram_report.summary.total_diagrams = 0

\* The three reports have been built after a prediction of no texts, their resolution
\* and no detection.
ThreeReportsOfNothing ==
    /\ texts = <<>>
    /\ target_language # ""
    /\ predictions = <<>>
    /\ resolutions = <<>>
    /\ diagram_frames = <<>>
    /\ overflow_report # <<>>
    /\ compression_report # <<>>
    /\ diagram_report # <<>>

\* The transform of an element holds a value that is no number.
UnparsableTransform(element) == ~AreFloats(Get(element, "ItemTransform", "1 0 0 1 0 0"))

\* The insets of an element hold a value that is no number.
NonNumericInset(element) ==
    ~AreFloats(Get(element, "TextFramePreferenceInsetSpacing", "0 0 0 0"))

\* The column count and the gutter of an element are numbers and its font size is not
\* zero.
NumericColumnsAndFont(element) ==
    /\ IsInt(Get(element, "TextColumnCount", "1"))
    /\ IsFloat(Get(element, "TextColumnGutter", "12"))
    /\ EstimateFontProperties(element)[1] # 0

\* C13: after the analysis of a package whose spreads are all XML, every TextFrame
\* element of a spread whose transform or whose insets hold a value that is no number
\* (and whose columns and font are in order) has its metrics in the result: with the
\* width 200, the height 100 and the position 0, 0 if it is the transform, with the
\* insets 0, 0, 0, 0 if it is the insets.
MalformedGeometryGetsDefaults ==
    (/\ pc = "analyzed"
     /\ idml_package # None
     /\ \A file \in Range(idml_package.files) : "root" \in DOMAIN file)
    => \A file \in Range(GetSpreadFiles(idml_package.files)) :
          \A element \in Range(file.root) :
             (/\ element.tag = "TextFrame"
              /\ NumericColumnsAndFont(element)
              /\ UnparsableTransform(element) \/ NonNumericInset(element))
             => \E metrics \in Range(frame_metrics) :
                   /\ metrics.frame_id = Get(element, "Self", "")
                   /\ UnparsableTransform(element)
                         => /\ metrics.width = 2000
                            /\ metrics.height = 1000
                            /\ metrics.x = 0
                            /\ metrics.y = 0
                   /\ NonNumericInset(element) => metrics.inset_spacing = <<0, 0, 0, 0>>

\* A text of 50 characters predicted for German (factor 1.30) against the frame of
\* 200 x 100 with one column, insets of 6, a 12pt font and a leading of 14.4.
WorkedExample(i) ==
    /\ pc = "predicted"
    /\ frame_metrics = <<>>
    /\ target_language = "de"
    /\ i \in 1..Len(predictions)
    /\ Len(predictions[i].original_text) = 50

\* lo <= risk < hi, both in thousandths
RiskWithin(risk, lo, hi) ==
    /\ lo * risk.den <= 1000 * risk.num
    /\ 1000 * risk.num < hi * risk.den

\* C14, as claimed: the example has the capacity 150, the estimated length 65, a risk
\* of about 0.433 in the bucket low, and the recommended maximum 135.
WorkedExampleAsClaimed ==
    \A i \in 1..Len(predictions) :
        WorkedExample(i)
        => /\ predictions[i].available_space_chars = 150
           /\ predictions[i].estimated_translated_length = 65
           /\ RiskWithin(predictions[i].overflow_risk, 432, 434)
           /\ RiskBucket(predictions[i].overflow_risk) = "low"
           /\ predictions[i].recommended_max_length = 135

\* C14: the example of a 50-character text for a factor of 1.30 in a frame of 200 x 100
\* with one column, insets of 6, a 12pt font and a leading of 14.4 has the capacity 156
\* (26 characters on each of 6 lines), the estimated length 65, a risk of about 0.417 in
\* the bucket low, and the recommended maximum 140.
WorkedExampleAsComputed ==
    \A i \in 1..Len(predictions) :
        WorkedExample(i)
        => /\ predictions[i].available_space_chars = 156
           /\ predictions[i].estimated_translated_length = 65
           /\ RiskWithin(predictions[i].overflow_risk, 416, 418)
           /\ RiskBucket(predictions[i].overflow_risk) = "low"
           /\ predictions[i].recommended_max_length = 140

\* The example has been predicted.
WorkedExamplePredicted == \E i \in 1..Len(predictions) : WorkedExample(i)

\* The API calls made for batch number b (from 0), in order.
CallsOf(b) == SelectSeq(api_calls, LAMBDA call : call.batch = b)

\* The number of texts in the batches before batch number b (from 0).
TextsBefore(b) == SumOf([n \in 1..b |-> Len(batches[n])])

\* The part of the translations that stands where the texts of batch number b stand.
TranslationsOf(b) ==
    SubSeq(translations, TextsBefore(b) + 1, TextsBefore(b) + Len(batches[b + 1]))

\* The translations are those received, in order, cut after the last text or followed
\* by the marker of a missing translation up to the last text.
PaddedOrCut(batch_translations, received, batch) ==
    /\ Len(batch_translations) = Len(batch)
    /\ \A k \in 1..Len(batch) :
          batch_translations[k]
              = IF k <= Len(received) THEN received[k] ELSE "[TRADUZIONE MANCANTE]"

AttemptSucceeded(call) == AttemptError(call.outcome) = ""

\* The waits of _translate_batch, each with the number of API calls made before it.
BackoffSleeps ==
    {<<sleeps[n].after, sleeps[n].seconds>> :
        n \in {k \in 1..Len(sleeps) : sleeps[k].by = "_translate_batch"}}

\* C16: _translate_batch makes at most 3 API calls for a batch, attempts 0, 1 and 2 in
\* turn; no call follows a successful one, whose parsed translations it returns; after
\* each failed attempt but the third it waits 2^attempt seconds (1, then 2), and it
\* raises only after three failed attempts in a row.
RetriesUntilFirstSuccessfulAttempt ==
    /\ \A b \in 0..(Len(batches) - 1) :
          /\ Len(CallsOf(b)) <= 3
          /\ \A n \in 1..Len(CallsOf(b)) : CallsOf(b)[n].attempt = n - 1
          /\ \A n \in 1..(Len(CallsOf(b)) - 1) : ~AttemptSucceeded(CallsOf(b)[n])
    /\ BackoffSleeps
          = {<<n, 2 ^ api_calls[n].attempt>> :
                n \in {k \in 1..Len(api_calls) :
                          /\ ~AttemptSucceeded(api_calls[k])
                          /\ api_calls[k].attempt < 2}}
    /\ pc = "batch_returned"
          => /\ AttemptSucceeded(api_calls[Len(api_calls)])
             /\ PaddedOrCut(translations,
                            NumberedTranslations(api_calls[Len(api_calls)].outcome.content),
                            texts)
    /\ pc = "raised"
          => /\ Len(api_calls) = 3
             /\ \A n \in 1..3 : ~AttemptSucceeded(api_calls[n])

\* _translate_batch has returned the translations of its third call after two calls
\* that raised and waits of 1 and 2 seconds.
ReturnedAtThirdAttempt ==
    /\ pc = "batch_returned"
    /\ Len(api_calls) = 3
    /\ \A n \in 1..2 : api_calls[n].outcome = ApiError
    /\ [n \in 1..Len(sleeps) |-> sleeps[n].seconds] = <<1, 2>>
    /\ Len(translations) = Len(texts)

\* Call number i of the log added a translation of the text into the language.
AddedBefore(i, source_text, target_lang) ==
    /\ cache_log[i].op = "add_translation"
    /\ cache_log[i].source_text = source_text
    /\ cache_log[i].target_lang = target_lang

\* C17: after any additions, get_exact_match returns only a row of the language asked
\* for (and of the text asked for), and returns None if no translation of the text into
\* that language was ever added, whatever was added for other languages.
ExactMatchOnlyInRequestedLanguage ==
    \A j \in 1..Len(cache_log) :
        cache_log[j].op = "get_exact_match" =>
            /\ cache_log[j].result.found
                  => /\ cache_log[j].result.row.target_lang = cache_log[j].target_lang
                     /\ cache_log[j].result.row.source_text = cache_log[j].source_text
            /\ (\A i \in 1..(j - 1) :
                    ~AddedBefore(i, cache_log[j].source_text, cache_log[j].target_lang))
                  => cache_log[j].result = NoRow

\* A text has been added in two languages under the same context, and the exact match
\* for one of them has returned its row.
MatchedAmongTwoLanguages ==
    /\ pc = "matched"
    /\ cache_log[Len(cache_log)].result.found
    /\ \E n \in 1..Len(tm_db.rows) :
          /\ tm_db.rows[n].source_text = cache_log[Len(cache_log)].source_text
          /\ tm_db.rows[n].target_lang # cache_log[Len(cache_log)].target_lang
          /\ tm_db.rows[n].document_type = cache_log[Len(cache_log)].result.row.document_type
          /\ cache_log[Len(cache_log)].context = "technical_manual"

\* Call number j of the log is a confirmed restoration that returned True, of the
\* backup that call number i created under the same name, with nothing but additions
\* to the cache between the two.
RoundTrip(i, j) ==
    /\ i < j
    /\ cache_log[i].op = "create_backup"
    /\ cache_log[i].result # ""
    /\ cache_log[j].op = "restore_backup"
    /\ cache_log[j].name = cache_log[i].name
    /\ cache_log[j].confirm
    /\ cache_log[j].result
    /\ \A k \in (i + 1)..(j - 1) : cache_log[k].op = "add_translation"

ApplicationsOf(p) == SelectSeq(applications, LAMBDA application : application.pass = p)

\* At most max_iterations passes and five times as many applications have been made,
\* and every pass started with a text longer than the target.
PassesBounded ==
    /\ passes <= single_max_iterations
    /\ Len(applications) <= 5 * single_max_iterations
    /\ \A p \in 1..passes :
          ApplicationsOf(p) # <<>>
              => ApplicationsOf(p)[1].length_before
                    > single_prediction.recommended_max_length
    /\ (pc = "for_strategy" /\ strategy_index = 1)
          => Len(loop_state.current_text) > single_prediction.recommended_max_length

\* C19: _resolve_single_overflow terminates for every max_iterations >= 0: it returns,
\* and up to then it has made at most max_iterations passes over the strategies, at
\* most 5 * max_iterations applications of a strategy, and has started no pass with a
\* text of at most the target length.
ResolveSingleTerminates == []PassesBounded /\ <>(pc = "returned")

\* It has returned without success after all its passes, each of five applications.
AllPassesMade ==
    /\ pc = "returned"
    /\ single_max_iterations >= 2
    /\ passes = single_max_iterations
    /\ Len(applications) = 5 * single_max_iterations
    /\ ~single_resolution.success

\* C20: in every pass the strategies are applied in the order remove_redundancy,
\* use_abbreviations, simplify_language, remove_optional_words, compact_numbers, each
\* to the text the one before it left; none is applied to a text of at most the target
\* length, and a pass that is over has applied all five or ended at the target.
StrategiesInFixedOrder ==
    \A p \in 1..passes :
        /\ Len(ApplicationsOf(p)) <= 5
        /\ \A k \in 1..Len(ApplicationsOf(p)) :
              /\ ApplicationsOf(p)[k].strategy
                    = <<"remove_redundancy", "use_abbreviations", "simplify_language",
                        "remove_optional_words", "compact_numbers">>[k]
              /\ ApplicationsOf(p)[k].length_before
                    > single_prediction.recommended_max_length
              /\ k > 1 => ApplicationsOf(p)[k].length_before
                             = ApplicationsOf(p)[k - 1].length_after
        /\ (p < passes \/ pc # "for_strategy")
              => \/ Len(ApplicationsOf(p)) = 5
                 \/ ApplicationsOf(p)[Len(ApplicationsOf(p))].length_after
                       <= single_prediction.recommended_max_length

\* A pass has ended at the target before its last strategy, after more than one.
PassEndedAtTarget ==
    /\ pc = "returned"
    /\ \E p \in 1..passes :
          /\ Len(ApplicationsOf(p)) \in 2..4
          /\ ApplicationsOf(p)[Len(ApplicationsOf(p))].length_after
                <= single_prediction.recommended_max_length

\* The standard frame of 200 x 100 units with a font of 12pt, a leading of 14.4 and
\* insets of 6 (in tenths), for text number i from 0.
StandardFrame(i, text) ==
    [frame_id |-> "frame_" \o ToString(i), width |-> 2000, height |-> 1000, x |-> 0,
     y |-> 0, column_count |-> 1, column_gutter |-> 120,
     inset_spacing |-> <<60, 60, 60, 60>>, font_size |-> 120, leading |-> 144,
     char_count |-> Len(text), estimated_overflow_risk |-> 80]

\* C21: the predictions of one call are all measured against the same frame: without
\* frame metrics each against the standard frame synthesized for it, with frame metrics
\* all against the first frame of the mapping, whose frame_id they carry; the available
\* space is the same in all predictions of the call.
SameFrameForEveryText ==
    pc = "predicted" =>
        /\ Len(predictions) = Len(texts)
        /\ \A i \in 1..Len(predictions) :
              IF frame_metrics = <<>>
              THEN /\ predictions[i].frame_id = StandardFrame(i - 1, texts[i]).frame_id
                   /\ predictions[i].available_space_chars
                         = CalculateAvailableCharacterSpace(StandardFrame(i - 1, texts[i]))
              ELSE /\ predictions[i].frame_id = frame_metrics[1].frame_id
                   /\ predictions[i].available_space_chars
                         = CalculateAvailableCharacterSpace(frame_metrics[1])
        /\ \A i, j \in 1..Len(predictions) :
              predictions[i].available_space_chars = predictions[j].available_space_chars

\* Two different texts were predicted against a mapping of two frames of different
\* capacity, after a call without frame metrics for two different texts.
TwoTextsTwoFrames ==
    /\ pc = "predicted"
    /\ Len(texts) = 2 /\ texts[1] # texts[2]
    /\ Len(frame_metrics) = 2
    /\ CalculateAvailableCharacterSpace(frame_metrics[1])
          # CalculateAvailableCharacterSpace(frame_metrics[2])
    /\ Len(prev_predictions) = 2
    /\ prev_predictions[1].original_text # prev_predictions[2].original_text
    /\ prev_predictions[1].frame_id = "frame_0"
    /\ prev_predictions[2].frame_id = "frame_1"
    /\ prev_predictions[1].available_space_chars = 156
    /\ prev_predictions[2].available_space_chars = 156

\* Entry k of the dictionary is a phrase that contains a shorter term of the
\* dictionary between word boundaries.
ContainsShorterTerm(k) ==
    \E j \in 1..Len(german_abbreviations) :
        /\ Len(german_abbreviations[j][1]) < Len(german_abbreviations[k][1])
        /\ german_abbreviations[j][1] \in BoundedSubstrings(german_abbreviations[k][1])

\* C22: a phrase of the dictionary that contains a shorter term of the dictionary is
\* replaced as a whole: where the text given to _apply_abbreviations has the phrase
\* between word boundaries, the result has the abbreviation of the phrase.
PhraseReplacedAsAWhole ==
    (pc = "applied" /\ strategy_name = "use_abbreviations") =>
        \A k \in 1..Len(german_abbreviations) :
            (/\ german_abbreviations[k][1] \in BoundedSubstrings(texts[1])
             /\ ContainsShorterTerm(k))
                => Contains(applied[1], german_abbreviations[k][2])

\* The positions of the sentence boundaries of text at or before the target length.
BoundariesWithin(text, limit) ==
    {i \in 1..Min(limit, Len(text)) : Char(text, i) \in SentenceEnds}

\* C23: a text longer than the target that has sentence boundaries at or before the
\* target length is cut at the last of them; only a text with none of them is cut at
\* the last word that fits in target - 3 characters, with an ellipsis, and only when no
\* word fits at target - 3 characters, with an ellipsis.
CutAtLastSentenceBoundary ==
    (pc = "truncated" /\ Len(texts[1]) > max_length) =>
        IF BoundariesWithin(texts[1], max_length) # {}
        THEN truncated = Prefix(texts[1], CHOOSE i \in BoundariesWithin(texts[1], max_length) :
                                 \A j \in BoundariesWithin(texts[1], max_length) : j <= i)
        ELSE IF TruncatedWords(Split(texts[1]), 1, 0, max_length) > 0
        THEN truncated
                = Join(SubSeq(Split(texts[1]), 1,
                              TruncatedWords(Split(texts[1]), 1, 0, max_length)), " ")
                    \o "..."
        ELSE truncated = HardCut(texts[1], max_length)

\* The result of the truncation without its last three characters.
BeforeEllipsis == Prefix(truncated, Len(truncated) - 3)

\* The truncation of a text longer than the target with no sentence boundary in its
\* first target-length characters is over.
TruncatedWithoutBoundary ==
    /\ pc = "truncated"
    /\ Len(texts[1]) > max_length
    /\ BoundariesWithin(texts[1], max_length) = {}

\* The result ends with the ellipsis and the part before it is a prefix of the text.
PrefixBeforeEllipsis ==
    TruncatedWithoutBoundary =>
        /\ Len(truncated) >= 3
        /\ SubSeq(truncated, Len(truncated) - 2, Len(truncated)) = "..."
        /\ BeforeEllipsis = Prefix(texts[1], Len(BeforeEllipsis))

\* C24: for a text longer than the target with no sentence boundary in its first
\* target-length characters the result ends with the ellipsis, and the part before the
\* ellipsis is a prefix of the text or of its words joined by single spaces.
PrefixOfWordsBeforeEllipsis ==
    TruncatedWithoutBoundary =>
        /\ Len(truncated) >= 3
        /\ SubSeq(truncated, Len(truncated) - 2, Len(truncated)) = "..."
        /\ \/ BeforeEllipsis = Prefix(texts[1], Len(BeforeEllipsis))
           \/ BeforeEllipsis = Prefix(Join(Split(texts[1]), " "), Len(BeforeEllipsis))

\* A word cut of a text whose whitespace is not single spaces between its words: the
\* part before the ellipsis is no prefix of the text.
WordCutOfSpacedText ==
    /\ TruncatedWithoutBoundary
    /\ Len(BeforeEllipsis) > 0
    /\ BeforeEllipsis # Prefix(texts[1], Len(BeforeEllipsis))

\* C25: the diagram score of a frame depends on the stories only through the text of
\* the frame: computed again for stories that differ in the text of another frame
\* only, the score of the first frame is the same.
ScoreOfOwnTextOnly ==
    pc = "scored_again" => diagram_scores[1] = prev_diagram_scores[1]

\* C26: the space_saved of the resolution _resolve_single_overflow returns is the
\* length of the original text less the length of the resolved text, whatever the
\* strategies did to the length.
SpaceSavedIsLengthDifference ==
    pc = "returned" =>
        single_resolution.space_saved
            = Len(single_resolution.original_text) - Len(single_resolution.resolved_text)

\* C27: apply_overflow_corrections with max lengths returns one text for each
\* translation, none longer than its max length, for every max length from 1 on.
CorrectedWithinMaxLength ==
    (pc = "corrected" /\ max_lengths # <<>>) =>
        /\ Len(corrected_translations) = Len(texts)
        /\ \A n \in 1..Len(corrected_translations) :
              Len(corrected_translations[n]) <= max_lengths[n]

\* The requests in flight never exceed max_concurrent.
InFlightBounded ==
    pc = "gathering" => Cardinality(InFlight(tasks)) <= async_translator.max_concurrent

\* Task number t holds a slot of the semaphore.
HoldsSlot(t) == t \in DOMAIN tasks /\ tasks[t].acquired /\ ~tasks[t].released

\* Task number t does not hold a slot.
HoldsNoSlot(t) == ~HoldsSlot(t)

\* C28: during translate_texts_batch there are never more than max_concurrent
\* requests in flight, whatever the number of texts and the interleaving of the tasks,
\* and a task that holds a slot of the semaphore eventually releases it, whether its
\* request succeeds or fails.
ConcurrencyBoundedAndSlotsReleased ==
    /\ []InFlightBounded
    /\ \A t \in 1..MaxAsyncTexts : HoldsSlot(t) ~> HoldsNoSlot(t)

\* More tasks than slots, every slot taken, a task waiting while the task of a failed
\* request has given its slot back.
SlotsFullAfterFailure ==
    /\ pc = "gathering"
    /\ Len(tasks) > async_translator.max_concurrent
    /\ Cardinality(InFlight(tasks)) = async_translator.max_concurrent
    /\ async_translator.semaphore = 0
    /\ \E t \in 1..Len(tasks) : tasks[t].raised /\ tasks[t].released
    /\ \E t \in 1..Len(tasks) : tasks[t].state = "created"

\* C29: when translate_texts_batch has returned, the text of a failed request is its
\* own result and the translation memory has no row that gives the text as the
\* translation of itself, so that no later lookup is served the original.
FailedTextNotCached ==
    pc = "returned_batch" =>
        \A t \in 1..Len(tasks) :
            tasks[t].raised =>
                /\ results[tasks[t].index] = ResultText(tasks[t].text)
                /\ With(ExactMatch(tm_db, tasks[t].text, async_translator.target_language,
                                   "", ""),
                        LAMBDA cached :
                            cached.found => cached.row.target_text # tasks[t].text)

\* C30: in a run of safe_cache_cleanup the terminology and the consistency rules stay
\* as they were and the translations are either as they were or all deleted; with
\* create_backup they are deleted only when the backup holds the cache as it was and
\* the answer at the prompt was y.
DeletedOnlyAfterBackupAndConfirmation ==
    cleanup # <<>> =>
        /\ tm_db # cleanup.before =>
              /\ cleanup.before.exists
              /\ tm_db = DeleteTranslations(cleanup.before)
              /\ tm_db.terminology = cleanup.before.terminology
              /\ tm_db.consistency_rules = cleanup.before.consistency_rules
              /\ cleanup.response \in {<<"y">>, <<"Y">>}
              /\ cleanup.result = Returned(TRUE)
        /\ (cleanup.create_backup /\ tm_db # cleanup.before) =>
              /\ cleanup.backup_path # ""
              /\ cleanup.backup_name \in DOMAIN backups
              /\ backups[cleanup.backup_name] = cleanup.before

\* A cleanup with a backup has deleted the translations of a cache that has
\* terminology and consistency rules.
CleanedAfterBackup ==
    /\ pc = "cleanup_returned"
    /\ cleanup.create_backup
    /\ cleanup.result = Returned(TRUE)
    /\ cleanup.before.rows # <<>>
    /\ tm_db.rows = <<>>
    /\ tm_db.terminology # <<>>
    /\ tm_db.consistency_rules # <<>>
    /\ backups[cleanup.backup_name].rows = cleanup.before.rows

====
